---- MODULE Spec2Model ----
(***************************************************************************)
(* Model of the Partiful form-filling automation (src/app).                *)
(*                                                                         *)
(* The program is one sequential coroutine driving one browser page.  The  *)
(* model is a labelled state machine: pc is the current program point,     *)
(* stack holds the return point and the enclosing exception handler of     *)
(* every pending call.  The page is the environment: every query of it is  *)
(* answered from the page state or by a nondeterministic choice (element   *)
(* absent, operation raising).                                             *)
(*                                                                         *)
(* Text is modelled as a sequence of one-character strings, so that        *)
(* strip, split, replace, int and strptime are computed character by       *)
(* character as Python computes them.                                      *)
(***************************************************************************)
EXTENDS Integers, Sequences, FiniteSets, TLC

VARIABLES
    pc,      \* current program point
    stack,   \* pending calls: <<[ret |-> label, exc |-> label], ...>>, innermost first
    rv,      \* value returned by the call that returned last ("True", "False", "None")
    page,    \* the browser page (environment)
    nav,     \* locals and history of select_date_in_datepicker
    tm,      \* locals and history of set_time_in_datepicker
    ov,      \* locals and history of close_modal_overlays
    dt,      \* locals and history of fill_datetime
    ti,      \* locals and history of fill_title
    loc,     \* locals and history of fill_location
    sv,      \* locals and history of click_location_save
    desc,    \* locals and history of fill_description
    img,     \* locals and history of upload_cover_image
    run      \* locals and history of fill_partiful_form

vars == <<pc, stack, rv, page, nav, tm, ov, dt, ti, loc, sv, desc, img, run>>

(***************************************************************************)
(* Bounds of the model.                                                    *)
(***************************************************************************)
MaxCells == 3      \* day buttons rendered by the calendar grid
MaxSlots == 2      \* time slots rendered by the time picker

Years == {2025, 2026}

(***************************************************************************)
(* Text helpers.                                                           *)
(***************************************************************************)
Null == <<"NULL">>          \* Python None where a str is expected

WS == {" ", "\n"}           \* whitespace characters of the model's alphabet

Digits == <<"0", "1", "2", "3", "4", "5", "6", "7", "8", "9">>

Truthy(s) == s # Null /\ s # << >>

RECURSIVE LStrip(_)
LStrip(s) == IF s # << >> /\ Head(s) \in WS THEN LStrip(Tail(s)) ELSE s

RECURSIVE RStrip(_)
RStrip(s) ==
    IF s # << >> /\ s[Len(s)] \in WS THEN RStrip(SubSeq(s, 1, Len(s) - 1)) ELSE s

\* str.strip()
Strip(s) == RStrip(LStrip(s))

\* str.split(): the maximal runs of non-whitespace characters
RECURSIVE SplitAcc(_, _, _)
SplitAcc(s, word, acc) ==
    IF s = << >>
    THEN IF word = << >> THEN acc ELSE Append(acc, word)
    ELSE IF Head(s) \in WS
         THEN SplitAcc(Tail(s), << >>, IF word = << >> THEN acc ELSE Append(acc, word))
         ELSE SplitAcc(Tail(s), Append(word, Head(s)), acc)

Split(s) == SplitAcc(s, << >>, << >>)

\* str(n) for a natural number
RECURSIVE Str(_)
Str(n) == IF n < 10 THEN <<Digits[n + 1]>> ELSE Append(Str(n \div 10), Digits[(n % 10) + 1])

DigitVal(c) == CHOOSE d \in 0..9 : Digits[d + 1] = c

IsDigit(c) == \E d \in 0..9 : Digits[d + 1] = c

\* int(s) accepts a non-empty run of decimal digits (leading zeros allowed)
IsNumeric(s) == s # << >> /\ \A i \in 1..Len(s) : IsDigit(s[i])

RECURSIVE IntOf(_)
IntOf(s) ==
    IF Len(s) = 1 THEN DigitVal(s[1])
    ELSE 10 * IntOf(SubSeq(s, 1, Len(s) - 1)) + DigitVal(s[Len(s)])

\* strftime("%B"): full month names of the C locale
MonthName ==
    << <<"J","a","n","u","a","r","y">>,
       <<"F","e","b","r","u","a","r","y">>,
       <<"M","a","r","c","h">>,
       <<"A","p","r","i","l">>,
       <<"M","a","y">>,
       <<"J","u","n","e">>,
       <<"J","u","l","y">>,
       <<"A","u","g","u","s","t">>,
       <<"S","e","p","t","e","m","b","e","r">>,
       <<"O","c","t","o","b","e","r">>,
       <<"N","o","v","e","m","b","e","r">>,
       <<"D","e","c","e","m","b","e","r">> >>

UpperLetters ==
    <<"A","B","C","D","E","F","G","H","I","J","K","L","M","N","O","P","Q","R","S","T","U","V","W","X","Y","Z">>

LowerLetters ==
    <<"a","b","c","d","e","f","g","h","i","j","k","l","m","n","o","p","q","r","s","t","u","v","w","x","y","z">>

\* str.lower() for one character
LowerChar(c) ==
    IF \E i \in 1..Len(UpperLetters) : UpperLetters[i] = c
    THEN LowerLetters[CHOOSE i \in 1..Len(UpperLetters) : UpperLetters[i] = c]
    ELSE c

Lower(s) == [i \in 1..Len(s) |-> LowerChar(s[i])]

\* datetime.strptime(s, "%B"): matches a full month name, ignoring case
IsMonthName(s) == \E m \in 1..12 : Lower(MonthName[m]) = Lower(s)

MonthOf(s) == CHOOSE m \in 1..12 : Lower(MonthName[m]) = Lower(s)

(***************************************************************************)
(* The calendar widget of the page.                                        *)
(***************************************************************************)
HeaderText(m, y) == MonthName[m] \o <<" ">> \o Str(y)

CalendarHeaders == {HeaderText(m, y) : m \in 1..12, y \in Years}

OddHeaders ==
    { << >>,                                                  \* empty text
      <<" ">>,                                                \* blank text
      MonthName[8],                                           \* one token
      HeaderText(8, 2025) \o <<" ", "x">>,                    \* three tokens
      <<"S","e","p","t"," ">> \o Str(2025),                   \* not a month name
      MonthName[8] \o <<" ", "2", "0", "x", "5">>,            \* not a number
      Lower(MonthName[8]) \o <<" ">> \o Str(2025),            \* lower-case month
      <<" ">> \o MonthName[9] \o <<" ", "\n">> \o Str(2025) \o <<" ">>,  \* padded
      MonthName[8] \o <<" ", "0">> \o Str(2025),              \* zero-padded year
      Null }                                                  \* text_content() is None

Headers == CalendarHeaders \cup OddHeaders

\* The header the calendar shows after one press of its next-month button.
NextMonthHeader(h) ==
    IF h \in CalendarHeaders
    THEN LET p == Split(h)
             m == MonthOf(p[1])
             y == IntOf(p[2])
         IN  IF m = 12
             THEN IF y + 1 \in Years THEN HeaderText(1, y + 1) ELSE h
             ELSE HeaderText(m + 1, y)
    ELSE h

\* What the header shows after a click on next-month: a calendar advances by
\* one month; an arbitrary page shows anything (also the same text again).
HeadersAfterClick(pg) == IF pg.calendar THEN {NextMonthHeader(pg.hdr)} ELSE Headers

CellTexts == { <<"1">>, <<" ", "1", "\n">>, <<"1", "1">>, <<"2", "1">>, Null }

Cells == [text : CellTexts, disabled : BOOLEAN]

RECURSIVE SeqsUpTo(_, _)
SeqsUpTo(S, n) ==
    IF n = 0 THEN { << >> }
    ELSE LET shorter == SeqsUpTo(S, n - 1)
         IN  shorter \cup {Append(s, x) : s \in {t \in shorter : Len(t) = n - 1}, x \in S}

Click(sel, text, disabled, by) ==
    [sel |-> sel, text |-> text, disabled |-> disabled, by |-> by]

\* keyboard events: press(key) has text Null, type(text) has key "type"
Key(key, text, by) == [key |-> key, text |-> text, by |-> by]

\* element.fill(text) and set_input_files(path) on the element found by sel
Fill(sel, text, by) == [sel |-> sel, text |-> text, by |-> by]

\* The page records the interactions of the calls in progress: when a call
\* has returned to its caller, its interactions leave the record.
Forget(pg, callees) ==
    [pg EXCEPT !.clicks = SelectSeq(@, LAMBDA e : e.by \notin callees),
               !.keys = SelectSeq(@, LAMBDA e : e.by \notin callees),
               !.fills = SelectSeq(@, LAMBDA e : e.by \notin callees)]

OverlayActors == {"close_modal_overlays"}

NavActors == {"click_next_month", "click_target_day"}

TimeActors == {"exact", "normalized", "end"}

SaveActors == {"click_location_save"}

(***************************************************************************)
(* Calls, returns and exceptions.                                          *)
(***************************************************************************)
Frame(ret, exc) == [ret |-> ret, exc |-> exc]

\* return v to the caller
Return(v) ==
    /\ rv' = v
    /\ IF stack = << >>
       THEN pc' = "returned" /\ stack' = stack
       ELSE pc' = Head(stack).ret /\ stack' = Tail(stack)

\* an exception leaves the current function: control passes to the handler
\* that encloses the call site
Raise ==
    /\ rv' = rv
    /\ IF stack = << >>
       THEN pc' = "raised" /\ stack' = stack
       ELSE pc' = Head(stack).exc /\ stack' = Tail(stack)

(***************************************************************************)
(* select_date_in_datepicker                                               *)
(***************************************************************************)
max_attempts == 12

Dates == [year : Years, month : 1..12, day : {1, 21}, hour : {18}, minute : {0}]

NavStart(target) ==
    [target |-> target, attempts |-> 0, current |-> << >>, result |-> "running",
     why |-> "", reads |-> 0]

target_month(t) == MonthName[t.month]
target_year(t) == Str(t.year)
target_day(t) == Str(t.day)

\* while attempts < max_attempts
NavLoopCondOffByOne(attempts) == attempts <= max_attempts
NavLoopCond(attempts) == attempts < max_attempts

\* get_current_month_year on header text `text`: (month, year) or None (<< >>)
ParseHeader(text) ==
    IF Truthy(text) /\ Truthy(Strip(text))
    THEN LET parts == Split(Strip(text))
         IN  IF Len(parts) = 2 THEN <<parts[1], parts[2]>> ELSE << >>
    ELSE << >>

\* a comparison with the month as the major key and the year as the minor
NavDecisionMonthMajor(current, t) ==
    IF current = << >> THEN "unreadable"
    ELSE IF current[1] = target_month(t) /\ current[2] = target_year(t) THEN "at_target"
    ELSE IF ~IsNumeric(current[2]) \/ ~IsMonthName(current[1]) THEN "value_error"
    ELSE IF MonthOf(current[1]) < t.month THEN "forward"
    ELSE IF MonthOf(current[1]) = t.month /\ IntOf(current[2]) < IntOf(target_year(t))
         THEN "forward"
    ELSE "out_of_range"

\* The branch taken by the loop body for the header reading `current`.
NavDecisionAlwaysForward(current, t) ==
    IF current = << >> THEN "unreadable"
    ELSE IF current[1] = target_month(t) /\ current[2] = target_year(t) THEN "at_target"
    ELSE "forward"
NavDecision(current, t) ==
    IF current = << >> THEN "unreadable"
    ELSE IF current[1] = target_month(t) /\ current[2] = target_year(t) THEN "at_target"
    ELSE IF ~IsNumeric(current[2]) THEN "value_error"
    ELSE IF IntOf(current[2]) < IntOf(target_year(t)) THEN "forward"
    ELSE IF IntOf(current[2]) = IntOf(target_year(t))
         THEN IF ~IsMonthName(current[1]) THEN "value_error"
              ELSE IF MonthOf(current[1]) < t.month THEN "forward"
              ELSE "out_of_range"
    ELSE "out_of_range"

\* click_target_day: the test applied to each day button
DayMatchesSubstring(text, disabled, t) ==
    /\ Truthy(text)
    /\ \E i \in 1..Len(text) : \E j \in i..Len(text) : SubSeq(text, i, j) = target_day(t)
    /\ ~disabled
DayMatches(text, disabled, t) ==
    Truthy(text) /\ Strip(text) = target_day(t) /\ ~disabled

\* click_target_day over the buttons `cells`, from button i on; fails[k] tells
\* which operation on button k raises ("none", "read", "click").  The result
\* is <<clicks attempted, returned value>>.
RECURSIVE DayScan(_, _, _, _, _)
DayScan(cells, fails, t, i, clicks) ==
    IF i > Len(cells) THEN <<clicks, FALSE>>
    ELSE IF fails[i] = "read" THEN DayScan(cells, fails, t, i + 1, clicks)
    ELSE IF DayMatches(cells[i].text, cells[i].disabled, t)
         THEN LET c == [sel |-> "day", text |-> cells[i].text,
                        disabled |-> cells[i].disabled, ok |-> fails[i] # "click"]
              IN  IF fails[i] = "click"
                  THEN DayScan(cells, fails, t, i + 1, Append(clicks, c))
                  ELSE <<Append(clicks, c), TRUE>>
         ELSE DayScan(cells, fails, t, i + 1, clicks)

NavFinish(result, why) == nav' = [nav EXCEPT !.result = result, !.why = why]

\* the variables the navigator leaves alone
navOthers == <<tm, ov, dt, ti, loc, sv, desc, img, run>>

\* lines 270-271: the loop head
NavLoop ==
    /\ pc = "nav_loop"
    /\ IF NavLoopCond(nav.attempts)
       THEN /\ nav' = [nav EXCEPT !.attempts = @ + 1]
            /\ pc' = "nav_read"
            /\ UNCHANGED <<stack, rv>>
       ELSE /\ NavFinish("Failed", "exhausted")
            /\ Return("False")
    /\ UNCHANGED <<page, navOthers>>

\* a navigator that keeps the month and year of an earlier step once it has
\* them
ReadHeaderCached(previous, text) ==
    IF previous # << >> THEN previous ELSE ParseHeader(text)

\* lines 202-213 and 274: the header element is queried and its text parsed
\* in every round of the loop; nothing of the round before is used
ReadHeader(previous, text) == ParseHeader(text)

\* line 274: current = await get_current_month_year()
GetCurrentMonthYear ==
    /\ pc = "nav_read"
    /\ \E answer \in {"text", "absent", "raise"} :
          nav' = [nav EXCEPT !.current = IF answer = "text"
                                         THEN ReadHeader(nav.current, page.hdr)
                                         ELSE << >>,
                             !.reads = @ + 1]
    /\ pc' = "nav_compare"
    /\ UNCHANGED <<stack, rv, page, navOthers>>

\* lines 275-296: the branch on the header reading
NavCompare ==
    /\ pc = "nav_compare"
    /\ LET d == NavDecision(nav.current, nav.target)
       IN  CASE d = "unreadable" ->
                  NavFinish("Failed", "unreadable") /\ Return("False")
             [] d = "at_target" ->
                  pc' = "nav_day" /\ UNCHANGED <<stack, rv, nav>>
             [] d = "forward" ->
                  pc' = "nav_next" /\ UNCHANGED <<stack, rv, nav>>
             [] d = "out_of_range" ->
                  NavFinish("Failed", "out_of_range") /\ Return("False")
             [] d = "value_error" ->
                  NavFinish("Raised", "value_error") /\ Raise
    /\ UNCHANGED <<page, navOthers>>

\* the next-month button of the page: there is none, or its disabled
\* attribute is missing (get_attribute returns None), present without a
\* value, as a disabled button is rendered (get_attribute returns ""), or
\* present with a value
NoButton == "<no button>"

NoAttribute == "<None>"

NextButtons == {NoButton, NoAttribute, "", "disabled"}

\* the button cannot be used
ButtonDisabled(button) == button \in {"", "disabled"}

\* an enabled test that asks whether the attribute is there, as
\* click_target_day does at line 249
is_enabledByPresence(attribute) == attribute = NoAttribute

\* line 224: is_enabled = not await next_button.get_attribute('disabled');
\* None and the empty string are both false
is_enabled(attribute) == attribute \in {NoAttribute, ""}

\* lines 220-237: what click_next_month comes to on this page; on a page of
\* which nothing is known, anything
NextMonthAnswers(pg) ==
    CASE pg.nextButton = "any" -> {"enabled", "disabled", "absent", "raise", "raise_after_click"}
      [] pg.nextButton = NoButton -> {"absent", "raise"}
      [] is_enabled(pg.nextButton) -> {"enabled", "raise", "raise_after_click"}
      [] OTHER -> {"disabled", "raise"}

\* lines 218-237 and 291-293: click_next_month and the test of its result
ClickNextMonth ==
    /\ pc = "nav_next"
    /\ \E answer \in NextMonthAnswers(page) :
          /\ IF answer \in {"enabled", "raise_after_click"}
             THEN \E h \in HeadersAfterClick(page) :
                     page' = [page EXCEPT !.hdr = h,
                                          !.clicks = Append(@, Click("next-month", Null,
                                                                     ButtonDisabled(page.nextButton),
                                                                     "click_next_month"))]
             ELSE page' = page
          /\ IF answer = "enabled"
             THEN pc' = "nav_loop" /\ UNCHANGED <<stack, rv, nav>>
             ELSE NavFinish("Failed", "no_next") /\ Return("False")
    /\ UNCHANGED navOthers

\* a click_target_day that reports success whether or not a button was
\* clicked
DayReturnsAlwaysTrue(clicked) == "True"

\* lines 251-253 and 258-264: True right after the click, False when the
\* loop over the buttons ends or the query raises
DayReturns(clicked) == IF clicked THEN "True" ELSE "False"

\* lines 239-264 and 284: return await click_target_day()
ClickTargetDay ==
    /\ pc = "nav_day"
    /\ \E answer \in {"list", "raise"} :
       \E fails \in [1..Len(page.cells) -> {"none", "read", "click"}] :
          LET scan == IF answer = "list"
                      THEN DayScan(page.cells, fails, nav.target, 1, << >>)
                      ELSE << << >>, FALSE >>
              done == {i \in 1..Len(scan[1]) : scan[1][i].ok}
          IN  /\ page' = [page EXCEPT !.clicks = @ \o
                             [i \in 1..Len(scan[1]) |->
                                 Click("day", scan[1][i].text, scan[1][i].disabled, "click_target_day")],
                                      !.dayClicked = @ + Cardinality(done)]
              /\ NavFinish(IF DayReturns(scan[2]) = "True" THEN "Done" ELSE "Failed",
                           IF DayReturns(scan[2]) = "True" THEN "day_clicked" ELSE "no_day")
              /\ Return(DayReturns(scan[2]))
    /\ UNCHANGED navOthers

NextNav == NavLoop \/ GetCurrentMonthYear \/ NavCompare \/ ClickNextMonth \/ ClickTargetDay

(***************************************************************************)
(* The time picker of the page.                                            *)
(***************************************************************************)
NoDate == [year |-> 0, month |-> 0, day |-> 0, hour |-> 0, minute |-> 0]   \* end is None

TwoDigits(n) == <<Digits[(n \div 10) + 1], Digits[(n % 10) + 1]>>

Meridiem(t) == IF t.hour < 12 THEN <<"A", "M">> ELSE <<"P", "M">>

\* The label the page renders for a time of day: 12-hour clock without a
\* leading zero, with or without a space before the meridiem.
PageLabel(t, spaced) ==
    Str(IF t.hour % 12 = 0 THEN 12 ELSE t.hour % 12) \o <<":">> \o TwoDigits(t.minute)
        \o (IF spaced THEN <<" ">> ELSE << >>) \o Meridiem(t)

(***************************************************************************)
(* set_time_in_datepicker                                                  *)
(***************************************************************************)
\* str.lstrip("0")
RECURSIVE LStripZero(_)
LStripZero(s) == IF s # << >> /\ Head(s) = "0" THEN LStripZero(Tail(s)) ELSE s

\* str.replace(old, new), old non-empty
RECURSIVE Replace(_, _, _)
Replace(s, old, new) ==
    IF Len(s) < Len(old) THEN s
    ELSE IF SubSeq(s, 1, Len(old)) = old
         THEN new \o Replace(SubSeq(s, Len(old) + 1, Len(s)), old, new)
         ELSE <<Head(s)>> \o Replace(Tail(s), old, new)

\* t.strftime("%I:%M%p").lstrip("0")
FormatTimeKeepZero(t) ==
    TwoDigits(((t.hour + 11) % 12) + 1) \o <<":">> \o TwoDigits(t.minute) \o Meridiem(t)
FormatTime(t) ==
    LStripZero(TwoDigits(((t.hour + 11) % 12) + 1) \o <<":">> \o TwoDigits(t.minute)
                   \o Meridiem(t))

\* start_time.replace("AM", " AM").replace("PM", " PM")
SpaceMeridiem(label) ==
    Replace(Replace(label, <<"A", "M">>, <<" ", "A", "M">>), <<"P", "M">>, <<" ", "P", "M">>)

\* the test each pass applies to the text of a slot
SlotMatchesLoose(pass, text, label) ==
    /\ Truthy(text)
    /\ \/ Strip(text) = label
       \/ Strip(text) = SpaceMeridiem(label)
       \/ Replace(text, <<" ">>, << >>) = label
SlotMatchesExactOnly(pass, text, label) == Truthy(text) /\ Strip(text) = label
SlotMatches(pass, text, label) ==
    /\ Truthy(text)
    /\ CASE pass = "exact" -> Strip(text) = label
         [] pass = "normalized" ->
               \/ Strip(text) = SpaceMeridiem(label)
               \/ Replace(text, <<" ">>, << >>) = label
         [] pass = "end" ->
               \/ Strip(text) = label
               \/ Replace(text, <<" ">>, << >>) = label

\* index of the first slot of elems the pass matches, 0 if none
LastMatch(pass, elems, label) ==
    IF \E i \in 1..Len(elems) : SlotMatches(pass, elems[i].text, label)
    THEN CHOOSE i \in 1..Len(elems) :
            /\ SlotMatches(pass, elems[i].text, label)
            /\ \A j \in (i + 1)..Len(elems) : ~SlotMatches(pass, elems[j].text, label)
    ELSE 0
FirstMatch(pass, elems, label) ==
    IF \E i \in 1..Len(elems) : SlotMatches(pass, elems[i].text, label)
    THEN CHOOSE i \in 1..Len(elems) :
            /\ SlotMatches(pass, elems[i].text, label)
            /\ \A j \in 1..(i - 1) : ~SlotMatches(pass, elems[j].text, label)
    ELSE 0

\* One for-loop over the slots: read each text in list order, click the first
\* match, wait, stop.  failAt/kind is the first operation that raises
\* (failAt = 0: none): text_content, click or wait_for_timeout on slot failAt.
\* Result: the index clicked (0: none), whether the loop reached its break,
\* and whether an exception left the loop.
SlotPass(pass, elems, label, failAt, kind) ==
    LET m == FirstMatch(pass, elems, label)
        last == IF m = 0 THEN Len(elems) ELSE m
    IN  IF failAt \in 1..last /\ kind = "text"
        THEN [clicked |-> 0, matched |-> FALSE, raised |-> TRUE]
        ELSE IF m = 0
        THEN [clicked |-> 0, matched |-> FALSE, raised |-> FALSE]
        ELSE IF failAt = m /\ kind = "click"
        THEN [clicked |-> 0, matched |-> FALSE, raised |-> TRUE]
        ELSE IF failAt = m /\ kind = "wait"
        THEN [clicked |-> m, matched |-> FALSE, raised |-> TRUE]
        ELSE [clicked |-> m, matched |-> TRUE, raised |-> FALSE]

TimeStart(start, end) ==
    [start |-> start, end |-> end, success |-> FALSE, elems |-> << >>,
     endElems |-> << >>, passes |-> << >>, startIdx |-> 0, endIdx |-> 0,
     error |-> FALSE, result |-> "running"]

\* the variables the time selector leaves alone
Idle == TimeStart(NoDate, NoDate)

tmOthers == <<nav, ov, dt, ti, loc, sv, desc, img, run>>

SlotClicks(pass, elems, i) ==
    IF i = 0 THEN << >> ELSE << Click("slot", elems[i].text, FALSE, pass) >>

\* line 317: time_elements = await page.query_selector_all('.ptf-l-cv08W')
TimeQuery ==
    /\ pc = "tm_query"
    /\ \E answer \in {"list", "raise"} :
          IF answer = "list"
          THEN tm' = [tm EXCEPT !.elems = page.slots] /\ pc' = "tm_exact"
          ELSE tm' = [tm EXCEPT !.error = TRUE] /\ pc' = "tm_return"
    /\ UNCHANGED <<stack, rv, page, tmOthers>>

\* lines 321-328: the exact pass
TimeExactPass ==
    /\ pc = "tm_exact"
    /\ \E failAt \in 0..Len(tm.elems), kind \in {"text", "click", "wait"} :
          LET r == SlotPass("exact", tm.elems, FormatTime(tm.start), failAt, kind)
          IN  /\ page' = [page EXCEPT !.clicks = @ \o SlotClicks("exact", tm.elems, r.clicked)]
              /\ tm' = [tm EXCEPT !.success = r.matched, !.passes = Append(@, "exact"),
                                  !.startIdx = r.clicked, !.error = r.raised]
              /\ pc' = IF r.raised THEN "tm_return"
                       ELSE IF r.matched THEN "tm_end" ELSE "tm_normalized"
    /\ UNCHANGED <<stack, rv, tmOthers>>

\* lines 330-342: the normalized pass, run when the exact pass set no success
TimeNormalizedPass ==
    /\ pc = "tm_normalized"
    /\ \E failAt \in 0..Len(tm.elems), kind \in {"text", "click", "wait"} :
          LET r == SlotPass("normalized", tm.elems, FormatTime(tm.start), failAt, kind)
          IN  /\ page' = [page EXCEPT !.clicks = @ \o SlotClicks("normalized", tm.elems, r.clicked)]
              /\ tm' = [tm EXCEPT !.success = r.matched, !.passes = Append(@, "normalized"),
                                  !.startIdx = r.clicked, !.error = r.raised]
              /\ pc' = IF r.raised THEN "tm_return" ELSE "tm_end"
    /\ UNCHANGED <<stack, rv, tmOthers>>

\* lines 352-353 and 371-372: the end slots are searched only when the End
\* button was found
AfterEndButtonIgnored(found) == "tm_end_pass"

AfterEndButton(found) == IF found THEN "tm_end_pass" ELSE "tm_return"

\* lines 345-355: if success and end_time, look for the End button and click it
TimeEnableEnd ==
    /\ pc = "tm_end"
    /\ IF tm.success /\ tm.end # NoDate
       THEN \E answer \in {"button", "raise", "raise_after_click"} :
               IF answer = "raise"
               THEN /\ page' = page
                    /\ tm' = [tm EXCEPT !.error = TRUE]
                    /\ pc' = "tm_return"
               ELSE IF ~page.endButton
               THEN /\ page' = page
                    /\ tm' = tm
                    /\ pc' = AfterEndButton(FALSE)
               ELSE /\ \E regen \in BOOLEAN :
                         page' = [page EXCEPT
                                     !.clicks = Append(@, Click("End", Null, FALSE, "end")),
                                     !.slots = IF regen THEN page.endSlots ELSE @]
                    /\ IF answer = "button"
                       THEN tm' = tm /\ pc' = AfterEndButton(TRUE)
                       ELSE tm' = [tm EXCEPT !.error = TRUE] /\ pc' = "tm_return"
       ELSE page' = page /\ tm' = tm /\ pc' = "tm_return"
    /\ UNCHANGED <<stack, rv, tmOthers>>

\* lines 357-370: query the slots again and run the end pass
TimeEndPass ==
    /\ pc = "tm_end_pass"
    /\ \E query \in {"list", "raise"} :
          IF query = "raise"
          THEN /\ page' = page
               /\ tm' = [tm EXCEPT !.error = TRUE]
          ELSE \E failAt \in 0..Len(page.slots), kind \in {"text", "click", "wait"} :
                  LET r == SlotPass("end", page.slots, FormatTime(tm.end), failAt, kind)
                  IN  /\ page' = [page EXCEPT
                                     !.clicks = @ \o SlotClicks("end", page.slots, r.clicked)]
                      /\ tm' = [tm EXCEPT !.endElems = page.slots,
                                          !.passes = Append(@, "end"),
                                          !.endIdx = r.clicked, !.error = r.raised]
    /\ pc' = "tm_return"
    /\ UNCHANGED <<stack, rv, tmOthers>>

\* line 379: return success
TimeReturn ==
    /\ pc = "tm_return"
    /\ tm' = [tm EXCEPT !.result = IF tm.success THEN "True" ELSE "False"]
    /\ Return(IF tm.success THEN "True" ELSE "False")
    /\ UNCHANGED <<page, tmOthers>>

NextTime ==
    TimeQuery \/ TimeExactPass \/ TimeNormalizedPass \/ TimeEnableEnd \/ TimeEndPass
        \/ TimeReturn

(***************************************************************************)
(* Chains of selectors.  page.inputs holds the selectors that find a       *)
(* usable element and page.broken those on which the page raises; a page   *)
(* whose inputs hold "any" answers every selector in any way.              *)
(***************************************************************************)
IsPrefix(s, t) == Len(s) <= Len(t) /\ SubSeq(t, 1, Len(s)) = s

Range(list) == {list[i] : i \in DOMAIN list}

Probe(sel) ==
    IF "any" \in page.inputs THEN {"filled", "absent", "raise"}
    ELSE IF sel \in page.broken THEN {"raise"}
    ELSE IF sel \in page.inputs THEN {"filled"}
    ELSE {"absent"}

\* a loop that goes on to the next selector after a fill
ChainStepKeepGoing(k, n, filled) ==
    IF k = n THEN "exhausted" ELSE "next"

\* lines 862-870 and 895-903: for selector in ...: a fill ends the function
\* (return); a missing element and a swallowed exception (except: continue)
\* go on to the next selector, and the loop ends after the last one
ChainStep(k, n, filled) ==
    IF filled THEN "return"
    ELSE IF k = n THEN "exhausted" ELSE "next"

(***************************************************************************)
(* close_modal_overlays                                                    *)
(***************************************************************************)
OverlayStart == [tactics |-> << >>, result |-> "idle"]

ovOthers == <<nav, tm, dt, ti, loc, sv, desc, img, run>>

\* a guard that reports whether the page is clear
OverlayReturnsWhetherClear == IF page.overlay THEN "False" ELSE "True"

\* line 158: -> None; the function holds no return statement
OverlayReturns == "None"

OverlayFinish(result) == ov' = [ov EXCEPT !.result = result]

\* lines 162-163: modal = query_selector(overlay); if modal
OverlayQuery ==
    /\ pc = "ov_query"
    /\ \E answer \in {"answer", "raise"} :
          IF answer = "raise"
          THEN ov' = [OverlayStart EXCEPT !.result = "error"] /\ Return(OverlayReturns)
          ELSE IF page.overlay
               THEN ov' = [OverlayStart EXCEPT !.result = "running"]
                    /\ pc' = "ov_escape" /\ UNCHANGED <<stack, rv>>
               ELSE ov' = [OverlayStart EXCEPT !.result = "none"] /\ Return(OverlayReturns)
    /\ UNCHANGED <<page, ovOthers>>

\* a guard that force-clicks whatever the second query found
AfterEscapeAlwaysClick(modal_still_there) == "ov_click"

\* lines 170-171: modal_still_there = query_selector(overlay); if modal_still_there
AfterEscape(modal_still_there) == IF modal_still_there THEN "ov_click" ELSE "ov_final"

\* lines 166-171: press Escape, wait, query again
OverlayEscape ==
    /\ pc = "ov_escape"
    /\ \E answer \in {"answer", "raise_press", "raise_later"}, gone \in BOOLEAN :
          IF answer = "raise_press"
          THEN page' = page /\ OverlayFinish("error") /\ Return(OverlayReturns)
          ELSE /\ page' = [page EXCEPT !.keys = Append(@, Key("Escape", Null, "close_modal_overlays")),
                                       !.overlay = ~gone]
               /\ IF answer = "raise_later"
                  THEN ov' = [ov EXCEPT !.tactics = Append(@, "Escape"), !.result = "error"]
                       /\ Return(OverlayReturns)
                  ELSE /\ ov' = [ov EXCEPT !.tactics = Append(@, "Escape")]
                       /\ pc' = AfterEscape(page'.overlay)
                       /\ UNCHANGED <<stack, rv>>
    /\ UNCHANGED ovOthers

\* lines 173-174: force-click the overlay, wait
OverlayForceClick ==
    /\ pc = "ov_click"
    /\ \E answer \in {"answer", "raise_click", "raise_later"}, gone \in BOOLEAN :
          IF answer = "raise_click"
          THEN page' = page /\ OverlayFinish("error") /\ Return(OverlayReturns)
          ELSE /\ page' = [page EXCEPT
                              !.clicks = Append(@, Click("overlay", Null, FALSE, "close_modal_overlays")),
                              !.overlay = ~gone]
               /\ IF answer = "raise_later"
                  THEN ov' = [ov EXCEPT !.tactics = Append(@, "force_click"), !.result = "error"]
                       /\ Return(OverlayReturns)
                  ELSE /\ ov' = [ov EXCEPT !.tactics = Append(@, "force_click")]
                       /\ pc' = "ov_final"
                       /\ UNCHANGED <<stack, rv>>
    /\ UNCHANGED ovOthers

\* lines 177-181: the final check
OverlayFinal ==
    /\ pc = "ov_final"
    /\ \E answer \in {"answer", "raise"} :
          /\ OverlayFinish(IF answer = "raise" THEN "error"
                           ELSE IF page.overlay THEN "persists" ELSE "closed")
          /\ Return(OverlayReturns)
    /\ UNCHANGED <<page, ovOthers>>

NextOverlay == OverlayQuery \/ OverlayEscape \/ OverlayForceClick \/ OverlayFinal

(***************************************************************************)
(* fill_datetime                                                           *)
(***************************************************************************)
\* strftime("%A"): day names of the C locale, Sunday first
WeekdayName ==
    << <<"S","u","n","d","a","y">>,
       <<"M","o","n","d","a","y">>,
       <<"T","u","e","s","d","a","y">>,
       <<"W","e","d","n","e","s","d","a","y">>,
       <<"T","h","u","r","s","d","a","y">>,
       <<"F","r","i","d","a","y">>,
       <<"S","a","t","u","r","d","a","y">> >>

\* day of the week of a Gregorian date, 1 = Sunday
MonthShift == <<0, 3, 2, 5, 0, 3, 5, 1, 4, 6, 2, 4>>

Weekday(t) ==
    LET y == IF t.month < 3 THEN t.year - 1 ELSE t.year
    IN  ((y + (y \div 4) - (y \div 100) + (y \div 400) + MonthShift[t.month] + t.day) % 7) + 1

\* t.strftime("%A, %B %d, %Y")
DateStr(t) ==
    WeekdayName[Weekday(t)] \o <<",", " ">> \o MonthName[t.month] \o <<" ">>
        \o TwoDigits(t.day) \o <<",", " ">> \o Str(t.year)

\* t.strftime("%I:%M %p").lstrip("0")
TimeStr(t) ==
    LStripZero(TwoDigits(((t.hour + 11) % 12) + 1) \o <<":">> \o TwoDigits(t.minute)
                   \o <<" ">> \o Meridiem(t))

\* f"{date_str} at {time_str}"
FallbackText(start) == DateStr(start) \o <<" ", "a", "t", " ">> \o TimeStr(start)

SameDate(a, b) == a.year = b.year /\ a.month = b.month /\ a.day = b.day

\* the text typed for the end time, lines 635-642
UntilText(start, end) ==
    IF SameDate(start, end)
    THEN <<" ", "u", "n", "t", "i", "l", " ">> \o TimeStr(end)
    ELSE <<" ", "u", "n", "t", "i", "l", " ">> \o WeekdayName[Weekday(end)] \o <<",", " ">>
             \o MonthName[end.month] \o <<" ">> \o TwoDigits(end.day)
             \o <<" ", "a", "t", " ">> \o TimeStr(end)

DTStart(start, end) ==
    [start |-> start, end |-> end, date_clicked |-> FALSE, navResult |-> "none",
     navWhy |-> "none", timeResult |-> "none", fallback |-> "no", raised |-> FALSE,
     artifact |-> "none", look |-> "none", result |-> "running"]

\* the debug files fill_datetime writes (lines 478, 503, 518, 556, 597, 652)
DebugArtifacts ==
    {"before_date_click.png", "after_date_click.png", "dialog_0_content.html",
     "date_picker_open.png", "after_date_selection.png", "after_typing_date.png"}

dtOthers == <<nav, tm, ov, ti, loc, sv, desc, img, run>>

ME == "fill_datetime"

\* line 475: await close_modal_overlays(page)
DTCloseOverlays ==
    /\ pc = "dt_start"
    /\ pc' = "ov_query"
    /\ stack' = <<Frame("dt_shot", "dt_except")>> \o stack
    /\ UNCHANGED <<rv, page, dt, dtOthers>>

\* the failures of writing a file that can happen on this machine: none
\* while the working directory takes the files
WriteFailures(answers) == IF page.disk = "failing" THEN answers ELSE {}

\* a write of a debug file whose failure nobody handles: the exception
\* leaves fill_datetime
AfterArtifactUnhandled(written, next, handler) ==
    IF written THEN next ELSE "raised"

\* lines 473 and 658-660, 485 and 537-538, 654-656: every write of a debug
\* file stands inside a try whose handler takes the exception
AfterArtifact(written, next, handler) ==
    IF written THEN next ELSE handler

\* line 478: the screenshot before the click
DTScreenshotBefore ==
    /\ pc = "dt_shot"
    /\ \E answer \in {"saved", "raise"} \cup WriteFailures({"raise_write"}) :
          /\ pc' = IF answer = "raise" THEN "dt_except"
                    ELSE AfterArtifact(answer = "saved", "dt_method1", "dt_except")
          /\ dt' = [dt EXCEPT !.artifact = IF answer = "raise_write"
                                           THEN "before_date_click.png" ELSE @]
    /\ ov' = OverlayStart
    /\ page' = Forget(page, OverlayActors)
    /\ UNCHANGED <<stack, rv, nav, tm, ti, loc, sv, desc, img, run>>

\* lines 485 and 543: the two ways of opening the date picker, in the order
\* in which the code tries them
DateTriggers == <<".ptf-l-EDGV-", "text=\"Set a date\"">>

\* lines 485-538: what Method 1 can come to on this page
Method1Answers ==
    LET found == Probe(DateTriggers[1])
    IN  (IF "filled" \in found
         THEN {"clicked", "clicked_raise_inspecting"}
                 \cup WriteFailures({"clicked_raise_screenshot", "clicked_raise_file"})
         ELSE {})
        \cup (IF "absent" \in found THEN {"absent", "unusable"} ELSE {})
        \cup (IF "raise" \in found THEN {"raise_before_click"} ELSE {})
        \cup (IF "any" \in page.inputs THEN {"raise_at_wait"} ELSE {})

\* lines 543-548: what Method 2 can come to on this page; clicking a locator
\* that matches nothing raises
Method2Answers ==
    LET found == Probe(DateTriggers[2])
    IN  (IF "filled" \in found THEN {"clicked"} ELSE {})
        \cup (IF {"absent", "raise"} \cap found # {} THEN {"raise_click"} ELSE {})
        \cup (IF "any" \in page.inputs THEN {"raise_at_wait"} ELSE {})

\* the answers of Method 1 in which line 500 has set date_clicked: the
\* handlers at 522 (dialog file) and 537 (screenshot, queries) come after it
Method1Clicked ==
    {"clicked", "clicked_raise_inspecting", "clicked_raise_screenshot", "clicked_raise_file"}

\* lines 485-538: click the date button found by CSS class, then inspect the
\* page (screenshot, dialog markup file, grids, month texts, buttons)
DTMethod1 ==
    /\ pc = "dt_method1"
    /\ \E answer \in Method1Answers :
          /\ IF answer \in {"raise_at_wait"} \cup Method1Clicked
             THEN page' = [page EXCEPT !.clicks = Append(@, Click("date", Null, FALSE, ME))]
             ELSE page' = page
          /\ dt' = [dt EXCEPT !.date_clicked = answer \in Method1Clicked,
                              !.artifact = CASE answer = "clicked_raise_screenshot" ->
                                                   "after_date_click.png"
                                             [] answer = "clicked_raise_file" ->
                                                   "dialog_0_content.html"
                                             [] OTHER -> @]
          /\ pc' = AfterArtifact(answer \notin {"clicked_raise_screenshot", "clicked_raise_file"},
                                 "dt_method2", "dt_method2")
    /\ UNCHANGED <<stack, rv, dtOthers>>

\* lines 541-548: if not date_clicked, click the text "Set a date"
DTMethod2 ==
    /\ pc = "dt_method2"
    /\ IF dt.date_clicked
       THEN page' = page /\ dt' = dt
       ELSE \E answer \in Method2Answers :
               /\ IF answer = "raise_click"
                  THEN page' = page
                  ELSE page' = [page EXCEPT !.clicks = Append(@, Click("Set a date", Null, FALSE, ME))]
               /\ dt' = [dt EXCEPT !.date_clicked = (answer = "clicked")]
    /\ pc' = "dt_picker"
    /\ UNCHANGED <<stack, rv, dtOthers>>

\* lines 551-574: if date_clicked, wait, take a screenshot and list the
\* visible month texts
DTAnalyzePicker ==
    /\ pc = "dt_picker"
    /\ IF dt.date_clicked
       THEN \E answer \in {"listed", "raise"} \cup WriteFailures({"raise_screenshot"}) :
               /\ pc' = IF answer = "raise" THEN "dt_except"
                         ELSE AfterArtifact(answer = "listed", "dt_select", "dt_except")
               /\ dt' = [dt EXCEPT !.artifact = IF answer = "raise_screenshot"
                                                THEN "date_picker_open.png" ELSE @]
       ELSE pc' = "dt_fallback" /\ dt' = dt
    /\ UNCHANGED <<stack, rv, page, dtOthers>>

\* line 577: success = await select_date_in_datepicker(page, start)
DTSelectDate ==
    /\ pc = "dt_select"
    /\ nav' = NavStart(dt.start)
    /\ pc' = "nav_loop"
    /\ stack' = <<Frame("dt_selected", "dt_except")>> \o stack
    /\ UNCHANGED <<rv, page, dt, tm, ov, ti, loc, sv, desc, img, run>>

\* where control goes once select_date_in_datepicker has returned
AfterSelectDateGiveUp(success) == IF success = "True" THEN "dt_time" ELSE "dt_return"
AfterSelectDate(success) == IF success = "True" THEN "dt_time" ELSE "dt_fallback"

\* lines 578 and 610-611: if success ... else
DTSelected ==
    /\ pc = "dt_selected"
    /\ dt' = [dt EXCEPT !.navResult = rv, !.navWhy = nav.why]
    /\ pc' = AfterSelectDate(rv)
    /\ nav' = NavStart(NoDate)
    /\ page' = Forget(page, NavActors)
    /\ UNCHANGED <<stack, rv, tm, ov, ti, loc, sv, desc, img, run>>

\* line 582: time_success = await set_time_in_datepicker(page, start, end)
DTSetTime ==
    /\ pc = "dt_time"
    /\ tm' = TimeStart(dt.start, dt.end)
    /\ pc' = "tm_query"
    /\ stack' = <<Frame("dt_close", "dt_except")>> \o stack
    /\ UNCHANGED <<rv, page, dt, nav, ov, ti, loc, sv, desc, img, run>>

\* a final look whose answer is not acted on
AfterLookIgnored(answer) == "dt_fallback"

\* lines 600-609: the function returns when the date button is found and its
\* text no longer holds "Set a date"; a missing button, an unchanged text and
\* an exception of the look (except: pass) all fall through to line 613
AfterLook(answer) == IF answer = "date_shown" THEN "return" ELSE "dt_fallback"

\* lines 583-609: press Escape, take a screenshot, read the date button; the
\* function returns here when the button no longer reads "Set a date"
DTClosePicker ==
    /\ pc = "dt_close"
    /\ \E pressed \in BOOLEAN,
          answer \in {"date_shown", "still_set_a_date", "absent", "raise", "raise_screenshot"} :
          /\ answer = "raise_screenshot" => page.disk = "failing"
          /\ page' = IF pressed
                     THEN [Forget(page, TimeActors) EXCEPT
                              !.keys = Append(@, Key("Escape", Null, ME))]
                     ELSE Forget(page, TimeActors)
          /\ dt' = [dt EXCEPT !.timeResult = rv,
                              !.artifact = IF answer = "raise_screenshot"
                                           THEN "after_date_selection.png" ELSE @,
                              !.look = IF answer = "raise_screenshot" THEN @
                                       ELSE IF answer = "date_shown" THEN "date"
                                       ELSE "no_date",
                              !.result = IF AfterLook(answer) = "return" THEN "returned" ELSE @]
          /\ IF AfterLook(answer) = "return" THEN Return("None")
             ELSE /\ pc' = AfterArtifact(answer # "raise_screenshot", "dt_fallback", "dt_except")
                  /\ UNCHANGED <<stack, rv>>
    /\ tm' = Idle
    /\ UNCHANGED <<nav, ov, ti, loc, sv, desc, img, run>>

\* the keys of the typed-date strategy, lines 629-648, up to the operation
\* that raises: "select", "type", "enter" or none of them
FallbackKeys(start, end, failAt, untilTyped) ==
    IF failAt = "select" THEN << >>
    ELSE <<Key("Control+a", Null, ME)>> \o
         (IF failAt = "type" THEN << >>
          ELSE <<Key("type", FallbackText(start), ME)>> \o
               (IF end # NoDate /\ untilTyped
                THEN <<Key("type", UntilText(start, end), ME)>> ELSE << >>) \o
               (IF failAt = "enter" THEN << >> ELSE <<Key("Enter", Null, ME)>>))

\* lines 613-656: the typed-date strategy
DTFallback ==
    /\ pc = "dt_fallback"
    /\ \E button \in {"present", "absent", "raise"},
          failAt \in {"none", "select", "type", "enter", "after_enter"}
                         \cup WriteFailures({"screenshot"}),
          untilTyped \in BOOLEAN :
          IF button = "raise"
          THEN page' = page /\ dt' = [dt EXCEPT !.fallback = "failed"]
          ELSE LET keys == FallbackKeys(dt.start, dt.end, failAt, untilTyped)
               IN  /\ page' = [page EXCEPT
                                  !.clicks = IF button = "present"
                                             THEN Append(@, Click("date", Null, FALSE, ME))
                                             ELSE @,
                                  !.keys = @ \o keys]
                   /\ dt' = [dt EXCEPT !.fallback = IF failAt \in {"none", "after_enter", "screenshot"}
                                                    THEN "typed" ELSE "failed",
                                       !.artifact = IF failAt = "screenshot"
                                                    THEN "after_typing_date.png" ELSE @]
    /\ pc' = "dt_return"
    /\ UNCHANGED <<stack, rv, dtOthers>>

\* lines 658-660: except Exception
DTExcept ==
    /\ pc = "dt_except"
    /\ dt' = [dt EXCEPT !.raised = TRUE]
    /\ pc' = "dt_return"
    /\ nav' = NavStart(NoDate)
    /\ tm' = Idle
    /\ ov' = OverlayStart
    /\ page' = Forget(page, OverlayActors \cup NavActors \cup TimeActors)
    /\ UNCHANGED <<stack, rv, ti, loc, sv, desc, img, run>>

\* the end of fill_datetime
DTReturn ==
    /\ pc = "dt_return"
    /\ dt' = [dt EXCEPT !.result = "returned"]
    /\ Return("None")
    /\ UNCHANGED <<page, dtOthers>>

NextDatetime ==
    \/ DTCloseOverlays \/ DTScreenshotBefore \/ DTMethod1 \/ DTMethod2 \/ DTAnalyzePicker
    \/ DTSelectDate \/ DTSelected \/ DTSetTime \/ DTClosePicker \/ DTFallback \/ DTExcept
    \/ DTReturn
    \/ NextOverlay \/ NextNav \/ NextTime

(***************************************************************************)
(* fill_title                                                              *)
(***************************************************************************)
PlaceholderTail == <<"n","t","i","t","l","e","d"," ","e","v","e","n","t">>

EndsWith(s, tail) ==
    Len(s) >= Len(tail) /\ SubSeq(s, Len(s) - Len(tail) + 1, Len(s)) = tail

\* lines 453-454: the title that gets typed
TitleToType(title) ==
    IF EndsWith(Lower(title), PlaceholderTail)
    THEN SubSeq(title, 1, Len(title) - 10)
    ELSE title

TitleStart(title) == [title |-> title, typed |-> Null, raised |-> FALSE, result |-> "idle"]

tiOthers == <<nav, tm, ov, dt, loc, sv, desc, img, run>>

\* the text of the title element after Delete is pressed with the caret
\* before character caret + 1
AfterDelete(text, caret) ==
    SubSeq(text, 1, caret) \o SubSeq(text, caret + 2, Len(text))

InsertAt(text, caret, typed) ==
    SubSeq(text, 1, caret) \o typed \o SubSeq(text, caret + 1, Len(text))

\* lines 456-467: click the title, press Delete, type the title
FillTitle ==
    /\ pc = "ti_start"
    /\ \E answer \in {"typed", "raise_click", "raise_delete", "raise_type"},
          caret \in 0..Len(page.title) :
          LET typed == TitleToType(ti.title)
              clicked == [page EXCEPT !.clicks = Append(@, Click("title", Null, FALSE, "fill_title"))]
              deleted == [clicked EXCEPT
                             !.keys = Append(@, Key("Delete", Null, "fill_title")),
                             !.title = AfterDelete(@, caret)]
              written == [deleted EXCEPT
                             !.keys = Append(@, Key("type", typed, "fill_title")),
                             !.title = InsertAt(@, caret, typed)]
          IN  /\ page' = CASE answer = "raise_click" -> page
                           [] answer = "raise_delete" -> clicked
                           [] answer = "raise_type" -> deleted
                           [] answer = "typed" -> written
              /\ ti' = [ti EXCEPT !.typed = IF answer = "typed" THEN typed ELSE Null,
                                  !.raised = (answer # "typed"),
                                  !.result = "returned"]
    /\ Return("None")
    /\ UNCHANGED tiOthers

NextTitle == FillTitle

(***************************************************************************)
(* click_location_save                                                     *)
(***************************************************************************)
SaveStart == [tiers |-> << >>, result |-> "idle"]

svOthers == <<nav, tm, ov, dt, ti, loc, desc, img, run>>

\* whether the dialog goes away when Save is clicked or Enter is pressed
DialogCloses ==
    CASE page.saveEffect = "closes" -> {TRUE}
      [] page.saveEffect = "stuck" -> {FALSE}
      [] OTHER -> BOOLEAN

SaveTiers == <<"role_button", "text_button", "enter", "bottom_click">>

\* what a tier that never saw the dialog go away would do if the last tier
\* reported success
TierOutcomeOptimistic(k, acted, open) ==
    IF acted /\ ~open THEN "True"
    ELSE IF k = Len(SaveTiers) THEN "True" ELSE "next"

\* a tier that reports success as soon as it has clicked or pressed, without
\* waiting for the dialog
TierOutcomeNoWait(k, acted, open) ==
    IF acted THEN "True"
    ELSE IF k = Len(SaveTiers) THEN "False" ELSE "next"

\* lines 394-399, 408-413, 420-425, 435-441 and 445-446: a tier returns True
\* when it acted and a wait for the dialog succeeded; a tier that found
\* nothing or raised hands over to the next one, and after the last tier the
\* function returns False
TierOutcome(k, acted, open) ==
    IF acted /\ ~open THEN "True"
    ELSE IF k = Len(SaveTiers) THEN "False" ELSE "next"

\* One tier of click_location_save (lines 390-401, 404-415, 418-427,
\* 430-443): act on the dialog, then wait for it to be hidden or detached.
\* The tier returns True when a wait succeeds; otherwise the next tier runs,
\* and after the last one the function returns False (lines 445-446).
SaveTier ==
    /\ pc = "sv_tier"
    /\ LET k == Len(sv.tiers) + 1
           name == SaveTiers[k]
           by == "click_location_save"
       IN  \E answer \in {"acted", "nothing_found", "raise"}, closes \in DialogCloses :
              /\ answer = "nothing_found" => name # "enter"
              /\ page' = IF answer = "acted"
                         THEN [page EXCEPT
                                  !.clicks = IF name = "enter" THEN @
                                             ELSE Append(@, Click(name, Null, FALSE, by)),
                                  !.keys = IF name = "enter"
                                           THEN Append(@, Key("Enter", Null, by)) ELSE @,
                                  !.dialog = IF closes THEN FALSE ELSE @,
                                  !.savedLocation = IF closes \/ ~page.dialog
                                                    THEN page.location ELSE @]
                         ELSE page
              /\ LET outcome == TierOutcome(k, answer = "acted", page'.dialog)
                 IN  IF outcome = "next"
                     THEN /\ sv' = [sv EXCEPT !.tiers = Append(@, name)]
                          /\ pc' = "sv_tier"
                          /\ UNCHANGED <<stack, rv>>
                     ELSE /\ sv' = [sv EXCEPT !.tiers = Append(@, name), !.result = outcome]
                          /\ Return(outcome)
    /\ UNCHANGED svOthers

NextSave == SaveTier

(***************************************************************************)
(* fill_location                                                           *)
(***************************************************************************)
LOCATION_INPUT_SELECTORS ==
    <<"input[placeholder=\"Place name, address, or link\"]",
      "input[type=\"search\"]",
      "input[placeholder*=\"Place name\"]",
      "input[placeholder*=\"address\"]",
      "input[placeholder*=\"location\"]",
      "input[placeholder*=\"Location\"]",
      "input[aria-label*=\"location\"]">>

SuggestionTiers ==
    <<"option_role", "text_MIT", "span_Cambridge", "modal_scan", "arrow_down_enter",
      "escape_accept">>

LocationStart(text) ==
    [text |-> text, filled |-> FALSE, suggestion_clicked |-> FALSE, tiers |-> << >>,
     saveCalls |-> 0, saved |-> "none", tried |-> << >>, typed |-> "no", raised |-> FALSE,
     result |-> "idle"]

locOthers == <<nav, tm, ov, dt, ti, sv, desc, img, run>>

LOC == "fill_location"

\* line 667: await close_modal_overlays(page)
LocCloseOverlays ==
    /\ pc = "loc_start"
    /\ pc' = "ov_query"
    /\ stack' = <<Frame("loc_open", "loc_except")>> \o stack
    /\ UNCHANGED <<rv, page, loc, locOthers>>

\* lines 670-673: click the first element with the text "Location"
LocOpen ==
    /\ pc = "loc_open"
    /\ \E answer \in {"clicked", "absent", "raise"}, opens \in BOOLEAN :
          /\ page' = IF answer = "clicked"
                     THEN [Forget(page, OverlayActors) EXCEPT
                              !.clicks = Append(@, Click("Location", Null, FALSE, LOC)),
                              !.dialog = opens]
                     ELSE Forget(page, OverlayActors)
          /\ pc' = IF answer = "raise" THEN "loc_except" ELSE "loc_input"
    /\ ov' = OverlayStart
    /\ UNCHANGED <<stack, rv, loc, nav, tm, dt, ti, sv, desc, img, run>>

\* lines 679-700: what the three methods can come to on this page: the
\* placeholder input when it is there, else the search input, else the
\* focused element; an exception in any of them leaves the try block
LocInputAnswers ==
    LET first == Probe(LOCATION_INPUT_SELECTORS[1])
        second == Probe(LOCATION_INPUT_SELECTORS[2])
    IN  (IF "filled" \in first THEN {"placeholder"} ELSE {})
        \cup (IF "raise" \in first THEN {"raise"} ELSE {})
        \cup (IF "absent" \in first
              THEN (IF "filled" \in second THEN {"search"} ELSE {})
                   \cup (IF "raise" \in second THEN {"raise"} ELSE {})
                   \cup (IF "absent" \in second THEN {"focused", "none", "raise"} ELSE {})
              ELSE {})

\* lines 676-700: fill the placeholder input, else the search input, else
\* the focused input
LocFillInput ==
    /\ pc = "loc_input"
    /\ \E answer \in LocInputAnswers :
          /\ page' = CASE answer = "placeholder" ->
                            [page EXCEPT !.fills = Append(@, Fill(LOCATION_INPUT_SELECTORS[1], loc.text, LOC)),
                                         !.location = loc.text]
                       [] answer = "search" ->
                            [page EXCEPT !.fills = Append(@, Fill(LOCATION_INPUT_SELECTORS[2], loc.text, LOC)),
                                         !.location = loc.text]
                       [] answer = "focused" ->
                            [page EXCEPT !.keys = @ \o <<Key("Control+a", Null, LOC),
                                                         Key("type", loc.text, LOC)>>,
                                         !.location = loc.text]
                       [] OTHER -> page
          /\ loc' = [loc EXCEPT !.filled = answer \in {"placeholder", "search", "focused"}]
          /\ pc' = CASE answer = "raise" -> "loc_except"
                     [] answer = "none" -> "loc_selectors"
                     [] OTHER -> "loc_settle"
    /\ UNCHANGED <<stack, rv, locOthers>>

\* line 705: wait for the suggestions
LocSettle ==
    /\ pc = "loc_settle"
    /\ \E answer \in {"waited", "raise"} :
          pc' = IF answer = "waited" THEN "loc_tier" ELSE "loc_except"
    /\ UNCHANGED <<stack, rv, page, loc, locOthers>>

Contains(text, part) ==
    \E i \in 1..Len(text) : \E j \in i..Len(text) : SubSeq(text, i, j) = part

MIT == <<"M","I","T">>

Cambridge == <<"C","a","m","b","r","i","d","g","e">>

CambridgeMA == Cambridge \o <<",", " ", "M", "A">>

\* the texts a tier looks for on the page, whatever the location asked for
\* (lines 725, 741, 759, 784); tiers 1 and 5 take the first suggestion as it is
TierLooksFor(name) ==
    CASE name = "text_MIT" -> {MIT}
      [] name = "span_Cambridge" -> {CambridgeMA}
      [] name = "modal_scan" -> {MIT, Cambridge}
      [] OTHER -> {}

\* The text the location input holds once the tier has selected: choosing a
\* suggestion of the autocomplete list puts the suggestion's text into the
\* input.  Tier 1 clicks suggestions[0] (line 728) and tier 5 presses
\* ArrowDown and Enter (lines 806-808): the first suggestion; tiers 2-4 click
\* the first element that holds one of the texts they look for.
Picked(pg, name) ==
    LET wanted == {i \in 1..Len(pg.suggestions) :
                     \/ name \in {"option_role", "arrow_down_enter"}
                     \/ \E part \in TierLooksFor(name) : Contains(pg.suggestions[i], part)}
    IN  IF wanted = {} THEN pg.location
        ELSE pg.suggestions[CHOOSE i \in wanted : \A j \in wanted : i <= j]

\* What one suggestion tier does to the page (lines 710-840).  Tiers 1-4
\* click an element when they select; tier 5 presses Escape, then ArrowDown
\* and Enter when the input is found; tier 6 presses Escape and clicks
\* outside the dialog when it is still open.
TierEffect(pg, name, answer, closes) ==
    LET escaped == [pg EXCEPT !.keys = Append(@, Key("Escape", Null, LOC)),
                              !.dialog = IF closes THEN FALSE ELSE @]
    IN  CASE name = "arrow_down_enter" /\ answer = "selected" ->
                [escaped EXCEPT !.keys = @ \o <<Key("ArrowDown", Null, LOC),
                                                Key("Enter", Null, LOC)>>,
                                !.location = Picked(pg, name)]
          [] name = "arrow_down_enter" /\ answer \in {"nothing", "raise_partway"} -> escaped
          [] name = "escape_accept" /\ answer = "selected" ->
                IF escaped.dialog
                THEN [escaped EXCEPT !.clicks = Append(@, Click("body", Null, FALSE, LOC))]
                ELSE escaped
          [] name = "escape_accept" /\ answer = "raise_partway" -> escaped
          [] name \notin {"arrow_down_enter", "escape_accept"} /\ answer = "selected" ->
                [pg EXCEPT !.clicks = Append(@, Click(name, Picked(pg, name), FALSE, LOC)),
                           !.location = Picked(pg, name)]
          [] OTHER -> pg

\* tiers that all run, whether or not an earlier one selected
AfterTierKeepTrying(selected, k) ==
    IF k = Len(SuggestionTiers) THEN "loc_save" ELSE "loc_tier"

\* lines 736, 757, 777, 797, 815 and 845: each later tier stands under
\* "if not suggestion_clicked", and the Save step follows the last of them
AfterTier(selected, k) ==
    IF selected \/ k = Len(SuggestionTiers) THEN "loc_save" ELSE "loc_tier"

\* lines 710-840: the next suggestion tier, run while no suggestion is
\* selected; every tier catches its own exceptions.  Line 743 awaits
\* page.get_by_text("MIT", exact=False).first, a Locator and not an
\* awaitable: the second tier raises TypeError before it clicks anything.
LocSuggestionTier ==
    /\ pc = "loc_tier"
    /\ LET k == Len(loc.tiers) + 1
           name == SuggestionTiers[k]
       IN  \E answer \in {"selected", "nothing", "raise", "raise_partway"},
              closes \in BOOLEAN :
              /\ answer = "nothing" => name # "escape_accept"
              /\ answer = "raise_partway" => name \in {"arrow_down_enter", "escape_accept"}
              /\ name = "text_MIT" => answer = "raise"
              /\ page' = TierEffect(page, name, answer, closes)
              /\ loc' = [loc EXCEPT !.tiers = Append(@, name),
                                    !.suggestion_clicked = (answer = "selected")]
              /\ pc' = AfterTier(answer = "selected", k)
    /\ UNCHANGED <<stack, rv, locOthers>>

\* lines 848 and 852: saved = await click_location_save(page)
LocSave ==
    /\ pc = "loc_save"
    /\ \E answer \in {"call", "raise"} :
          IF loc.saveCalls = 1 /\ answer = "raise"
          THEN /\ pc' = "loc_return"        \* line 851 raised: except at line 857
               /\ UNCHANGED <<stack, sv, loc>>
          ELSE /\ sv' = SaveStart
               /\ loc' = [loc EXCEPT !.saveCalls = @ + 1]
               /\ pc' = "sv_tier"
               /\ stack' = <<Frame("loc_saved", "loc_return")>> \o stack
    /\ UNCHANGED <<rv, page, nav, tm, ov, dt, ti, desc, img, run>>

\* lines 849-856: retry once when the first call returned False
LocSaved ==
    /\ pc = "loc_saved"
    /\ loc' = [loc EXCEPT !.saved = rv]
    /\ pc' = IF rv = "False" /\ loc.saveCalls = 1 THEN "loc_save" ELSE "loc_return"
    /\ sv' = SaveStart
    /\ page' = Forget(page, SaveActors)
    /\ UNCHANGED <<stack, rv, nav, tm, ov, dt, ti, desc, img, run>>

\* lines 862-870: the fallback selectors, tried in list order
LocTrySelector ==
    /\ pc = "loc_selectors"
    /\ LET k == Len(loc.tried) + 1
           selector == LOCATION_INPUT_SELECTORS[k]
       IN  \E answer \in Probe(selector) :
              LET step == ChainStep(k, Len(LOCATION_INPUT_SELECTORS), answer = "filled")
              IN  /\ loc' = [loc EXCEPT !.tried = Append(@, selector),
                                        !.result = IF step = "return" THEN "returned" ELSE @]
                  /\ page' = IF answer = "filled"
                             THEN [page EXCEPT !.fills = Append(@, Fill(selector, loc.text, LOC)),
                                               !.location = loc.text]
                             ELSE page
                  /\ IF step = "return"
                     THEN Return("None")
                     ELSE /\ pc' = IF step = "exhausted" THEN "loc_type" ELSE "loc_selectors"
                          /\ UNCHANGED <<stack, rv>>
    /\ UNCHANGED locOthers

\* lines 872-874: type the location
LocType ==
    /\ pc = "loc_type"
    /\ \E answer \in {"typed", "raise"} :
          IF answer = "typed"
          THEN /\ page' = [page EXCEPT !.keys = Append(@, Key("type", loc.text, LOC))]
               /\ loc' = [loc EXCEPT !.typed = "typed"]
               /\ pc' = "loc_return"
          ELSE page' = page /\ loc' = loc /\ pc' = "loc_except"
    /\ UNCHANGED <<stack, rv, locOthers>>

\* lines 876-883: except Exception: try typing the location anyway
LocExcept ==
    /\ pc = "loc_except"
    /\ \E answer \in {"typed", "raise"} :
          IF answer = "typed"
          THEN /\ page' = [Forget(page, OverlayActors) EXCEPT
                              !.keys = Append(@, Key("type", loc.text, LOC))]
               /\ loc' = [loc EXCEPT !.typed = "recovery", !.raised = TRUE]
          ELSE /\ page' = Forget(page, OverlayActors)
               /\ loc' = [loc EXCEPT !.typed = "failed", !.raised = TRUE]
    /\ pc' = "loc_return"
    /\ ov' = OverlayStart
    /\ UNCHANGED <<stack, rv, nav, tm, dt, ti, sv, desc, img, run>>

\* the end of fill_location
LocReturn ==
    /\ pc = "loc_return"
    /\ loc' = [loc EXCEPT !.result = "returned"]
    /\ Return("None")
    /\ UNCHANGED <<page, locOthers>>

NextLocation ==
    \/ LocCloseOverlays \/ LocOpen \/ LocFillInput \/ LocSettle \/ LocSuggestionTier
    \/ LocSave \/ LocSaved \/ LocTrySelector \/ LocType \/ LocExcept \/ LocReturn
    \/ NextSave

(***************************************************************************)
(* fill_description                                                        *)
(***************************************************************************)
DESCRIPTION_INPUT_SELECTORS ==
    <<"textarea[placeholder*=\"description\"]",
      "textarea[placeholder*=\"Description\"]",
      "[contenteditable=\"true\"][role=\"textbox\"]",
      "textarea[aria-label*=\"description\"]">>

DescriptionStart(text) ==
    [text |-> text, tried |-> << >>, filledBy |-> 0, typed |-> FALSE, raised |-> FALSE,
     result |-> "idle"]

descOthers == <<nav, tm, ov, dt, ti, loc, sv, img, run>>

DESC == "fill_description"

\* lines 891-892: click the trigger "Add a description"
DescTrigger ==
    /\ pc = "desc_start"
    /\ \E answer \in {"clicked", "raise_click", "raise_wait"} :
          /\ page' = IF answer = "raise_click" THEN page
                     ELSE [page EXCEPT !.clicks = Append(@, Click("Add a description", Null, FALSE, DESC))]
          /\ pc' = IF answer = "clicked" THEN "desc_selectors" ELSE "desc_except"
    /\ UNCHANGED <<stack, rv, desc, descOthers>>

\* lines 895-903: the input selectors, tried in list order
DescTrySelector ==
    /\ pc = "desc_selectors"
    /\ LET k == Len(desc.tried) + 1
           selector == DESCRIPTION_INPUT_SELECTORS[k]
       IN  \E answer \in Probe(selector) :
              LET step == ChainStep(k, Len(DESCRIPTION_INPUT_SELECTORS), answer = "filled")
              IN  /\ desc' = [desc EXCEPT !.tried = Append(@, selector),
                                          !.filledBy = IF answer = "filled" THEN k ELSE @,
                                          !.result = IF step = "return" THEN "returned" ELSE @]
                  /\ page' = IF answer = "filled"
                             THEN [page EXCEPT !.fills = Append(@, Fill(selector, desc.text, DESC))]
                             ELSE page
                  /\ IF step = "return"
                     THEN Return("None")
                     ELSE /\ pc' = IF step = "exhausted" THEN "desc_type" ELSE "desc_selectors"
                          /\ UNCHANGED <<stack, rv>>
    /\ UNCHANGED descOthers

\* lines 905-907: type the description
DescType ==
    /\ pc = "desc_type"
    /\ \E answer \in {"typed", "raise"} :
          IF answer = "typed"
          THEN /\ page' = [page EXCEPT !.keys = Append(@, Key("type", desc.text, DESC))]
               /\ desc' = [desc EXCEPT !.typed = TRUE]
               /\ pc' = "desc_return"
          ELSE page' = page /\ desc' = desc /\ pc' = "desc_except"
    /\ UNCHANGED <<stack, rv, descOthers>>

\* lines 909-910: except Exception
DescExcept ==
    /\ pc = "desc_except"
    /\ desc' = [desc EXCEPT !.raised = TRUE]
    /\ pc' = "desc_return"
    /\ UNCHANGED <<stack, rv, page, descOthers>>

\* the end of fill_description
DescReturn ==
    /\ pc = "desc_return"
    /\ desc' = [desc EXCEPT !.result = "returned"]
    /\ Return("None")
    /\ UNCHANGED <<page, descOthers>>

NextDescription == DescTrigger \/ DescTrySelector \/ DescType \/ DescExcept \/ DescReturn

(***************************************************************************)
(* upload_cover_image                                                      *)
(***************************************************************************)
CoverStart(path) == [path |-> path, trigger |-> "none", raised |-> FALSE, result |-> "idle"]

imgOthers == <<nav, tm, ov, dt, ti, loc, sv, desc, run>>

IMG == "upload_cover_image"

CoverFinish(value, raised) ==
    /\ img' = [img EXCEPT !.result = value, !.raised = raised]
    /\ Return(value)

\* lines 918-941: wait, click "Edit"; failing that, click the first of the
\* first 50 elements whose text names a photo or an upload
CoverTrigger ==
    /\ pc = "img_start"
    /\ \E answer \in {"edit", "scan_clicked", "scan_nothing", "raise_wait", "raise_scan"} :
          /\ page' = CASE answer = "edit" ->
                            [page EXCEPT !.clicks = Append(@, Click("text=Edit", Null, FALSE, IMG))]
                       [] answer = "scan_clicked" ->
                            [page EXCEPT !.clicks = Append(@, Click("scan", Null, FALSE, IMG))]
                       [] OTHER -> page
          /\ IF answer \in {"raise_wait", "raise_scan"}
             THEN /\ CoverFinish("False", TRUE)
                  /\ UNCHANGED stack
             ELSE /\ img' = [img EXCEPT !.trigger = answer]
                  /\ pc' = "img_file"
                  /\ UNCHANGED <<stack, rv>>
    /\ UNCHANGED imgOthers

\* lines 943-966: set the file input, directly or through the element
CoverSetFile ==
    /\ pc = "img_file"
    /\ \E answer \in {"set", "set_via_element", "set_raise_wait", "no_input", "raise"} :
          /\ page' = IF answer \in {"set", "set_via_element", "set_raise_wait"}
                     THEN [page EXCEPT !.fills = Append(@, Fill("input[type='file']", img.path, IMG))]
                     ELSE page
          /\ CoverFinish(IF answer \in {"set", "set_via_element"} THEN "True" ELSE "False",
                         answer \in {"raise", "set_raise_wait"})
    /\ UNCHANGED imgOthers

NextCover == CoverTrigger \/ CoverSetFile

(***************************************************************************)
(* EventSpec (models.py): the construction of an event from keyword        *)
(* arguments.  run.kwargs holds the arguments, run.event the EventSpec     *)
(* once it exists, run.error the exception that ended the construction.    *)
(***************************************************************************)
\* lines 13-35: the fields of an EventSpec that the form filler reads; this
\* value stands for no event
NoEvent ==
    [title |-> << >>, start |-> NoDate, end |-> NoDate, time_zone |-> "",
     location_text |-> Null, description_md |-> Null, cover_image_path |-> Null]

\* the names zoneinfo.available_timezones() returns on this machine
available_timezones == {"America/New_York", "Europe/Paris", "UTC"}

\* the keyword argument was not given
Omitted == "<omitted>"

\* datetime.MAXYEAR: the last year a datetime can hold
MAXYEAR == 9999

IsLeap(y) == (y % 4 = 0 /\ y % 100 # 0) \/ y % 400 = 0

DaysInMonth(y, m) ==
    CASE m \in {1, 3, 5, 7, 8, 10, 12} -> 31
      [] m \in {4, 6, 9, 11} -> 30
      [] OTHER -> IF IsLeap(y) THEN 29 ELSE 28

NextDay(t) ==
    IF t.day < DaysInMonth(t.year, t.month) THEN [t EXCEPT !.day = @ + 1]
    ELSE IF t.month < 12 THEN [t EXCEPT !.month = @ + 1, !.day = 1]
    ELSE [t EXCEPT !.year = @ + 1, !.month = 1, !.day = 1]

\* line 49: self.start + timedelta(hours = h), for h below 24
AddTimedelta(t, h) ==
    IF t.hour + h < 24 THEN [t EXCEPT !.hour = @ + h]
    ELSE NextDay([t EXCEPT !.hour = @ + h - 24])

\* a validator that lets every name through
validate_timezoneAcceptAll(v) == v

\* lines 39-43: the name itself when it is in the registry, else ValueError
validate_timezone(v) == IF v \notin available_timezones THEN "ValueError" ELSE v

\* a validator that sets the end whether or not one was given
set_default_endOverwrite(self) == [self EXCEPT !.end = AddTimedelta(self.start, 4)]

\* lines 46-50: if self.end is None: self.end = self.start + timedelta(hours=4)
set_default_end(self) ==
    IF self.end = NoDate THEN [self EXCEPT !.end = AddTimedelta(self.start, 4)] ELSE self

esOthers == <<page, nav, tm, ov, dt, ti, loc, sv, desc, img>>

\* lines 13-43: the fields are taken from the arguments; time_zone takes its
\* default (line 17, not validated) when omitted and passes through
\* validate_timezone otherwise; a ValueError ends the construction with a
\* ValidationError
EventSpecFields ==
    /\ pc = "es_fields"
    /\ LET given == run.kwargs.time_zone
           zone == IF given = Omitted THEN "America/New_York" ELSE validate_timezone(given)
       IN  IF zone = "ValueError"
           THEN /\ run' = [run EXCEPT !.error = "ValidationError"]
                /\ Raise
           ELSE /\ run' = [run EXCEPT !.event = [run.kwargs EXCEPT !.time_zone = zone]]
                /\ pc' = "es_after"
                /\ UNCHANGED <<stack, rv>>
    /\ UNCHANGED esOthers

\* lines 45-50: the model validator that runs after the fields; the sum
\* raises OverflowError past the last year of datetime
EventSpecAfter ==
    /\ pc = "es_after"
    /\ IF run.event.end = NoDate /\ AddTimedelta(run.event.start, 4).year > MAXYEAR
       THEN /\ run' = [run EXCEPT !.event = NoEvent, !.error = "OverflowError"]
            /\ Raise
       ELSE /\ run' = [run EXCEPT !.event = set_default_end(@)]
            /\ pc' = "constructed"
            /\ UNCHANGED <<stack, rv>>
    /\ UNCHANGED esOthers

NextEventSpec == EventSpecFields \/ EventSpecAfter

(***************************************************************************)
(* extract                                                                 *)
(***************************************************************************)
\* default_tz is None
NoneZone == "<None>"

NoRequest == [text |-> << >>, default_tz |-> NoneZone]

\* confidence is held in tenths: 0.9 is 9
NoResponse == [event |-> NoEvent, tzinfo |-> "", confidence |-> 0]

\* EventSpec(**kwargs) as a value: whether the construction succeeds (lines
\* 37-43 of models.py), and the EventSpec it makes (lines 17 and 45-50)
Constructs(kwargs) ==
    kwargs.time_zone = Omitted \/ validate_timezone(kwargs.time_zone) # "ValueError"

Constructed(kwargs) ==
    set_default_end([kwargs EXCEPT !.time_zone = IF @ = Omitted THEN "America/New_York" ELSE @])

\* req.default_tz or "UTC" (lines 102 and 130)
OrUTC(zone) == IF zone \in {NoneZone, ""} THEN "UTC" ELSE zone

\* line 130: ZoneInfo(req.default_tz or "UTC"); ZoneInfo raises
\* ZoneInfoNotFoundError for a key it does not know
FallbackZone(zone) ==
    IF OrUTC(zone) \in available_timezones THEN OrUTC(zone) ELSE "ZoneInfoNotFoundError"

TITLE_LIMIT == 50

Ellipsis == <<".", ".", ".">>

\* line 128: req.text[:50] + "..." if len(req.text) > 50 else req.text
FallbackTitle(text) ==
    IF Len(text) > TITLE_LIMIT THEN SubSeq(text, 1, TITLE_LIMIT) \o Ellipsis ELSE text

\* line 129: datetime.now().replace(hour=19, minute=0, second=0, microsecond=0)
SevenPM(now) == [now EXCEPT !.hour = 19, !.minute = 0]

\* what the call of the language model and the reading of its answer come
\* to (lines 76-116): the JSON of an event, or one of the failures, each of
\* which is raised again as a ValueError
LlmAnswers == {"json", "no_content", "not_json", "missing_key", "bad_datetime", "api_error"}

\* lines 121-123 with 76-116: extract_event; the EventSpec is built with
\* time_zone=req.default_tz or "UTC", and a ValidationError of it is raised
\* again as a ValueError like every other failure
ExtractEvent ==
    /\ pc = "ex_start"
    /\ \E answer \in LlmAnswers, title \in {<< >>, <<"B", "B", "Q">>}, lasts \in {0, 3} :
          LET start == SevenPM(run.now)
              kwargs == [NoEvent EXCEPT
                            !.title = title, !.start = start,
                            !.end = IF lasts = 0 THEN NoDate ELSE AddTimedelta(start, lasts),
                            !.time_zone = OrUTC(run.req.default_tz)]
          IN  IF answer = "json" /\ Constructs(kwargs)
              THEN /\ run' = [run EXCEPT !.event = Constructed(kwargs)]
                   /\ pc' = "ex_respond"
              ELSE /\ run' = [run EXCEPT !.error = "ValueError"]
                   /\ pc' = "ex_fallback"
    /\ UNCHANGED <<stack, rv, esOthers>>

\* lines 124-125: confidence = 0.9 if event.title and event.start else 0.7
ExtractRespond ==
    /\ pc = "ex_respond"
    /\ run' = [run EXCEPT
                  !.response = [event |-> run.event, tzinfo |-> "from the text",
                                confidence |-> IF Truthy(run.event.title) /\ run.event.start # NoDate
                                               THEN 9 ELSE 7]]
    /\ Return("ExtractionResponse")
    /\ UNCHANGED esOthers

\* lines 126-133: the fallback event, made from the text of the request
ExtractFallback ==
    /\ pc = "ex_fallback"
    /\ LET zone == FallbackZone(run.req.default_tz)
           kwargs == [NoEvent EXCEPT
                         !.title = FallbackTitle(run.req.text),
                         !.start = SevenPM(run.now),
                         !.time_zone = Omitted,
                         !.description_md = run.req.text]
       IN  IF zone = "ZoneInfoNotFoundError"
           THEN /\ run' = [run EXCEPT !.error = zone]
                /\ Raise
           ELSE /\ run' = [run EXCEPT
                              !.event = Constructed(kwargs),
                              !.response = [event |-> Constructed(kwargs), tzinfo |-> zone,
                                            confidence |-> 3]]
                /\ Return("ExtractionResponse")
    /\ UNCHANGED esOthers

NextExtract == ExtractEvent \/ ExtractRespond \/ ExtractFallback

(***************************************************************************)
(* fill_partiful_form                                                      *)
(***************************************************************************)
partiful_create_urls ==
    <<"https://partiful.com/create",
      "https://www.partiful.com/create",
      "https://partiful.com/invite/new">>

RunStart(event, wait_for_publish) ==
    [event |-> event, wait_for_publish |-> wait_for_publish,
     navigated |-> << >>, loads |-> << >>, page_loaded |-> FALSE,
     step |-> "none", calls |-> << >>, returned |-> << >>, failures |-> 0,
     phase |-> "loading", browser |-> "open", polls |-> 0, loop |-> "none",
     artifact |-> "none", req |-> NoRequest, now |-> NoDate, response |-> NoResponse,
     error |-> "none", href |-> Null, publish |-> "none",
     kwargs |-> NoEvent]

\* the locals of a function that is not running
IdleLocals ==
    /\ nav = NavStart(NoDate)
    /\ tm = Idle
    /\ ov = OverlayStart
    /\ dt = DTStart(NoDate, NoDate)
    /\ ti = TitleStart(<< >>)
    /\ loc = LocationStart(Null)
    /\ sv = SaveStart
    /\ desc = DescriptionStart(Null)
    /\ img = CoverStart(Null)

\* lines 81-84: after the URL loop, raise when no page loaded, else enter the try
AfterUrlLoopUnchecked(page_loaded) == "run_overlay"

AfterUrlLoop(page_loaded) == IF ~page_loaded THEN "raised" ELSE "run_overlay"

\* lines 69-79: break after a URL that loaded, continue after one that failed
UrlLoopNoBreak(loaded, k) ==
    IF k < Len(partiful_create_urls) THEN "run_url" ELSE AfterUrlLoop(TRUE)

UrlLoop(loaded, k) ==
    IF loaded THEN AfterUrlLoop(TRUE)
    ELSE IF k < Len(partiful_create_urls) THEN "run_url"
    ELSE AfterUrlLoop(FALSE)

\* lines 69-82: goto(url) and wait_for_load_state for the next URL of the
\* list; both succeed for the URLs the site serves, one of them raises for
\* the others
RunTryUrl ==
    /\ pc = "run_url"
    /\ LET k == Len(run.navigated) + 1
       IN     LET loaded == (partiful_create_urls[k] \in page.serves)
                  next == UrlLoop(loaded, k)
              IN  /\ pc' = next
                  /\ run' = [run EXCEPT
                                !.navigated = Append(@, partiful_create_urls[k]),
                                !.loads = Append(@, loaded),
                                !.page_loaded = @ \/ loaded,
                                !.phase = CASE next = "raised" -> "aborted"
                                            [] next = "run_url" -> @
                                            [] OTHER -> "filling",
                                !.error = IF next = "raised" THEN "page_load" ELSE @]
    /\ UNCHANGED <<stack, rv, page, nav, tm, ov, dt, ti, loc, sv, desc, img>>

\* truthiness of an optional text field (lines 96, 100, 104)
Applies(value) == value # Null /\ Truthy(value)

\* lines 87-108: the statement that follows each call of the try block
StepAfterSwapped(step) ==
    CASE step = "close_modal_overlays" -> "run_title"
      [] step = "fill_title" -> "run_datetime"
      [] step = "fill_datetime" -> "run_description"
      [] step = "fill_description" -> "run_location"
      [] step = "fill_location" -> "run_cover"
      [] step = "upload_cover_image" -> "run_wait"

StepAfter(step) ==
    CASE step = "close_modal_overlays" -> "run_title"
      [] step = "fill_title" -> "run_datetime"
      [] step = "fill_datetime" -> "run_location"
      [] step = "fill_location" -> "run_description"
      [] step = "fill_description" -> "run_cover"
      [] step = "upload_cover_image" -> "run_wait"

\* the value a filler returns is discarded (lines 87-106 are bare awaits)
AfterReturnChecked(step, value) ==
    IF value = "False" THEN "run_except" ELSE StepAfter(step)

AfterReturn(step, value) == StepAfter(step)

\* whether the filler that just returned met an exception it handled itself
FailedIn(step) ==
    CASE step = "close_modal_overlays" -> FALSE
      [] step = "fill_title" -> ti.raised
      [] step = "fill_datetime" -> dt.raised \/ dt.fallback = "failed"
      [] step = "fill_location" -> loc.raised
      [] step = "fill_description" -> desc.raised
      [] step = "upload_cover_image" -> img.raised

\* an await of the try block
Call(step, entry) ==
    /\ pc' = entry
    /\ stack' = <<Frame("run_resume", "run_except")>> \o stack
    /\ run' = [run EXCEPT !.step = step, !.calls = Append(@, step)]
    /\ UNCHANGED <<rv, page>>

Skip(step) ==
    /\ pc' = StepAfter(step)
    /\ UNCHANGED <<stack, rv, page, run>>

\* line 87: await close_modal_overlays(page)
RunCloseOverlays ==
    /\ pc = "run_overlay"
    /\ Call("close_modal_overlays", "ov_query")
    /\ UNCHANGED <<nav, tm, ov, dt, ti, loc, sv, desc, img>>

\* line 90: await fill_title(page, event.title)
RunFillTitle ==
    /\ pc = "run_title"
    /\ Call("fill_title", "ti_start")
    /\ ti' = TitleStart(run.event.title)
    /\ UNCHANGED <<nav, tm, ov, dt, loc, sv, desc, img>>

\* line 93: await fill_datetime(page, event.start, event.end)
RunFillDatetime ==
    /\ pc = "run_datetime"
    /\ Call("fill_datetime", "dt_start")
    /\ dt' = DTStart(run.event.start, run.event.end)
    /\ UNCHANGED <<nav, tm, ov, ti, loc, sv, desc, img>>

\* lines 96-97: if event.location_text: await fill_location(...)
RunFillLocation ==
    /\ pc = "run_location"
    /\ IF Applies(run.event.location_text)
       THEN Call("fill_location", "loc_start") /\ loc' = LocationStart(run.event.location_text)
       ELSE Skip("fill_location") /\ loc' = loc
    /\ UNCHANGED <<nav, tm, ov, dt, ti, sv, desc, img>>

\* lines 100-101: if event.description_md: await fill_description(...)
RunFillDescription ==
    /\ pc = "run_description"
    /\ IF Applies(run.event.description_md)
       THEN Call("fill_description", "desc_start")
            /\ desc' = DescriptionStart(run.event.description_md)
       ELSE Skip("fill_description") /\ desc' = desc
    /\ UNCHANGED <<nav, tm, ov, dt, ti, loc, sv, img>>

\* lines 104-105: if event.cover_image_path: await upload_cover_image(...)
RunUploadCover ==
    /\ pc = "run_cover"
    /\ IF Applies(run.event.cover_image_path)
       THEN Call("upload_cover_image", "img_start")
            /\ img' = CoverStart(run.event.cover_image_path)
       ELSE Skip("upload_cover_image") /\ img' = img
    /\ UNCHANGED <<nav, tm, ov, dt, ti, loc, sv, desc>>

\* the awaited call returned: its locals are gone and the record of its page
\* interactions is closed; the next statement runs
RunResume ==
    /\ pc = "run_resume"
    /\ pc' = AfterReturn(run.step, rv)
    /\ run' = [run EXCEPT !.returned = Append(@, run.step),
                          !.failures = IF FailedIn(run.step) THEN @ + 1 ELSE @,
                          !.artifact = IF run.step = "fill_datetime" THEN dt.artifact ELSE @]
    /\ nav' = NavStart(NoDate)
    /\ tm' = Idle
    /\ ov' = OverlayStart
    /\ dt' = DTStart(NoDate, NoDate)
    /\ ti' = TitleStart(<< >>)
    /\ loc' = LocationStart(Null)
    /\ sv' = SaveStart
    /\ desc' = DescriptionStart(Null)
    /\ img' = CoverStart(Null)
    /\ page' = [page EXCEPT !.clicks = << >>, !.keys = << >>, !.fills = << >>]
    /\ UNCHANGED <<stack, rv>>

MaxPolls == 1

\* lines 108-112: the form is filled; choose how to wait
RunWait ==
    /\ pc = "run_wait"
    /\ run' = [run EXCEPT !.phase = "waiting", !.step = "wait"]
    /\ pc' = IF run.wait_for_publish THEN "run_publish" ELSE "run_keep_open"
    /\ UNCHANGED <<stack, rv, page, nav, tm, ov, dt, ti, loc, sv, desc, img>>

\* where the page is once the event has been published by hand
PublishedUrl == "https://partiful.com/e/published"

\* line 117: the predicate handed to wait_for_function,
\* "() => window.location.href !== window.location.href"
LocationChanged(href) == href # href

\* lines 116-122: the wait resolves when the predicate holds ("Page changed -
\* event likely published!"); the timeout of 300000 ms and any other
\* exception are caught ("Timeout reached. Please publish manually if
\* needed.")
PublishReport(href, answer) ==
    IF answer = "polled" /\ LocationChanged(href) THEN "detected" ELSE "not_confirmed"

\* lines 112-122: the bounded wait for a manual publish; the page stays on
\* the form or leaves it for the published event while the wait runs
RunAwaitPublish ==
    /\ pc = "run_publish"
    /\ \E href \in {run.navigated[Len(run.navigated)], PublishedUrl},
          answer \in {"polled", "raise"} :
          /\ run' = [run EXCEPT !.href = href, !.publish = PublishReport(href, answer)]
          /\ pc' = "run_finally"
    /\ UNCHANGED <<stack, rv, page, nav, tm, ov, dt, ti, loc, sv, desc, img>>

\* a loop whose handlers let the interrupt through: the exception leaves
\* the function
KeepOpenAfterInterruptEscapes(answer) ==
    CASE answer = "alive" -> "run_keep_open"
      [] answer = "interrupt" -> "raised"
      [] OTHER -> "run_finally"

\* lines 130-141: the loop goes round while document.title can be read; the
\* bare except at 135 breaks out of it when the page is gone, and the
\* handlers at 138 and 140 take the interrupt and any exception of the wait;
\* each of them falls through to the finally at 152
KeepOpenAfter(answer) ==
    CASE answer = "alive" -> "run_keep_open"
      [] OTHER -> "run_finally"

\* lines 129-141: poll the page every 10 seconds until it is gone
RunKeepOpen ==
    /\ pc = "run_keep_open"
    /\ \E answer \in {"alive", "closed", "raise_wait", "interrupt"} :
          /\ answer = "alive" => run.polls < MaxPolls
          /\ run' = [run EXCEPT !.polls = IF answer = "alive" THEN @ + 1 ELSE @,
                                !.loop = IF answer = "alive" THEN @ ELSE answer,
                                !.error = IF KeepOpenAfter(answer) = "raised"
                                          THEN "interrupt" ELSE @]
          /\ pc' = KeepOpenAfter(answer)
    /\ UNCHANGED <<stack, rv, page, nav, tm, ov, dt, ti, loc, sv, desc, img>>

\* lines 152-155: finally: await browser.close()
RunFinally ==
    /\ pc = "run_finally"
    /\ \E answer \in {"closed", "raise"} :
          /\ run' = [run EXCEPT !.browser = IF answer = "closed" THEN "closed" ELSE @,
                                !.phase = "ended",
                                !.error = IF answer = "raise" THEN "browser_close" ELSE @]
          /\ pc' = IF answer = "closed" THEN "returned" ELSE "raised"
    /\ UNCHANGED <<stack, rv, page, nav, tm, ov, dt, ti, loc, sv, desc, img>>

NextRun ==
    \/ RunTryUrl \/ RunCloseOverlays \/ RunFillTitle \/ RunFillDatetime \/ RunFillLocation
    \/ RunFillDescription \/ RunUploadCover \/ RunResume \/ RunWait \/ RunAwaitPublish
    \/ RunKeepOpen \/ RunFinally

Next ==
    \/ NextRun \/ NextTitle \/ NextDatetime \/ NextLocation \/ NextDescription \/ NextCover

(***************************************************************************)
(* Specifications.                                                         *)
(***************************************************************************)
NavCellLists ==
    { << >>,
      << [text |-> <<"2", "1">>, disabled |-> TRUE],
         [text |-> <<"1">>, disabled |-> FALSE] >> }

\* targets in the first, a middle and the last month of each year
NavDates == {d \in Dates : d.month \in {1, 9, 12} /\ d.day = 1}

\* a blank page on which nothing has been clicked
PageBlank ==
    [hdr |-> Null, calendar |-> TRUE, cells |-> << >>, slots |-> << >>,
     endSlots |-> << >>, endButton |-> FALSE, overlay |-> FALSE,
     title |-> << >>, dialog |-> FALSE, saveEffect |-> "either", serves |-> {},
     inputs |-> {"any"}, broken |-> {},
     suggestions |-> << >>, location |-> Null, savedLocation |-> Null,
     disk |-> "writable", nextButton |-> "any",
     clicks |-> << >>, keys |-> << >>, fills |-> << >>, dayClicked |-> 0]

PageStart(hdr, calendar, cells) ==
    [PageBlank EXCEPT !.hdr = hdr, !.calendar = calendar, !.cells = cells]

\* the orchestrator and the other fillers are not running
OthersIdle ==
    /\ ti = TitleStart(<< >>)
    /\ loc = LocationStart(Null)
    /\ sv = SaveStart
    /\ desc = DescriptionStart(Null)
    /\ img = CoverStart(Null)
    /\ run = RunStart(NoEvent, FALSE)

\* One call of select_date_in_datepicker against any page.
InitNav ==
    /\ pc = "nav_loop"
    /\ stack = << >>
    /\ rv = "None"
    /\ \E t \in NavDates : nav = NavStart(t)
    /\ tm = Idle
    /\ ov = OverlayStart
    /\ dt = DTStart(NoDate, NoDate)
    /\ OthersIdle
    /\ \E h \in Headers, cal \in BOOLEAN, cells \in NavCellLists :
          page = PageStart(h, cal, cells)

SpecNav == InitNav /\ [][NextNav]_vars

\* The coroutine is resumed whenever the page answers: the call always proceeds.
FairSpecNav == SpecNav /\ WF_vars(NextNav)

\* One call of select_date_in_datepicker against a calendar whose next-month
\* button is missing, enabled or disabled.
InitNextMonth ==
    /\ pc = "nav_loop"
    /\ stack = << >>
    /\ rv = "None"
    /\ \E t \in NavDates : nav = NavStart(t)
    /\ tm = Idle
    /\ ov = OverlayStart
    /\ dt = DTStart(NoDate, NoDate)
    /\ OthersIdle
    /\ \E h \in CalendarHeaders, button \in NextButtons, cells \in NavCellLists :
          page = [PageStart(h, TRUE, cells) EXCEPT !.nextButton = button]

SpecNextMonth == InitNextMonth /\ [][NextNav]_vars

\* One call of select_date_in_datepicker against a calendar showing the target
\* month or the month before it, with any grid of day buttons.
DayDates == {d \in Dates : d.year = 2025 /\ d.month = 9}

InitDay ==
    /\ pc = "nav_loop"
    /\ stack = << >>
    /\ rv = "None"
    /\ \E t \in DayDates : nav = NavStart(t)
    /\ tm = Idle
    /\ ov = OverlayStart
    /\ dt = DTStart(NoDate, NoDate)
    /\ OthersIdle
    /\ \E h \in {HeaderText(8, 2025), HeaderText(9, 2025)},
          cells \in SeqsUpTo(Cells, MaxCells) :
          page = PageStart(h, TRUE, cells)

SpecDay == InitDay /\ [][NextNav]_vars

\* One call of set_time_in_datepicker against any list of slots.
Times == [year : {2025}, month : {9}, day : {1}, hour : {0, 6, 12, 22}, minute : {0, 30}]

PlusHours(t, h) ==
    IF t.hour + h < 24 THEN [t EXCEPT !.hour = @ + h]
    ELSE [t EXCEPT !.hour = (@ + h) % 24, !.day = @ + 1]

Evening == [year |-> 2025, month |-> 9, day |-> 1, hour |-> 19, minute |-> 0]

\* the texts a slot may carry on a page that offers start and end
SlotTexts(start, end) ==
    {PageLabel(t, sp) : t \in {start, end, Evening} \ {NoDate}, sp \in BOOLEAN}
        \cup { <<" ">> \o PageLabel(start, FALSE) \o <<"\n">>, Null }

SlotsOf(texts) == [i \in 1..Len(texts) |-> [text |-> texts[i]]]

InitTime ==
    /\ pc = "tm_query"
    /\ stack = << >>
    /\ rv = "None"
    /\ nav = NavStart(NoDate)
    /\ ov = OverlayStart
    /\ dt = DTStart(NoDate, NoDate)
    /\ OthersIdle
    /\ \E start \in Times :
       \E end \in {NoDate, PlusHours(start, 4)} :
       \E texts \in SeqsUpTo(SlotTexts(start, end), MaxSlots) :
       \E endTexts \in {texts, << PageLabel(end, TRUE) >>, << >>} :
       \E button \in BOOLEAN :
          /\ tm = TimeStart(start, end)
          /\ page = [PageBlank EXCEPT !.slots = SlotsOf(texts),
                                      !.endSlots = SlotsOf(endTexts),
                                      !.endButton = button]

SpecTime == InitTime /\ [][NextTime]_vars

\* One call of fill_datetime.  The calendar shows the target month, a month
\* before it or a month after it, or an unreadable header.
DatetimeStarts == {d \in Dates : d.year = 2025 /\ d.month = 9 /\ d.day = 1}

DatetimeHeaders ==
    {HeaderText(7, 2025), HeaderText(9, 2025), HeaderText(10, 2025), HeaderText(2, 2026),
     MonthName[8], <<"S","e","p","t"," ">> \o Str(2025)}

DatetimeSlotLists(start) ==
    { << >>, << PageLabel(start, TRUE), PageLabel(PlusHours(start, 4), FALSE) >> }

InitDatetime ==
    /\ pc = "dt_start"
    /\ stack = << >>
    /\ rv = "None"
    /\ nav = NavStart(NoDate)
    /\ tm = Idle
    /\ ov = OverlayStart
    /\ OthersIdle
    /\ \E start \in DatetimeStarts :
       \E end \in {PlusHours(start, 4), PlusHours(start, 8)} :
       \E h \in DatetimeHeaders, cells \in NavCellLists, overlay \in BOOLEAN :
       \E texts \in DatetimeSlotLists(start) :
          /\ dt = DTStart(start, end)
          /\ page = [PageBlank EXCEPT !.hdr = h, !.cells = cells, !.overlay = overlay,
                                      !.slots = SlotsOf(texts), !.endSlots = SlotsOf(texts),
                                      !.endButton = TRUE]

SpecDatetime == InitDatetime /\ [][NextDatetime]_vars

\* the lists the autocomplete may render for "MIT": none, the place asked
\* for, and other places first
LocationSuggestionLists ==
    { << >>,
      << MIT >>,
      << MIT \o <<" ">> \o <<"M","u","s","e","u","m">>, MIT >>,
      << <<"S","u","m","m","i","t">>, <<"K","e","n","d","a","l","l">> \o <<" ">> \o CambridgeMA >> }

\* One call of fill_location.  The page starts with or without an overlay, and
\* its Save dialog closes on every attempt, on none, or on some.
InitLocation ==
    /\ pc = "loc_start"
    /\ stack = << >>
    /\ rv = "None"
    /\ nav = NavStart(NoDate)
    /\ tm = Idle
    /\ ov = OverlayStart
    /\ dt = DTStart(NoDate, NoDate)
    /\ ti = TitleStart(<< >>)
    /\ loc = LocationStart(<<"M","I","T">>)
    /\ sv = SaveStart
    /\ desc = DescriptionStart(Null)
    /\ img = CoverStart(Null)
    /\ run = RunStart(NoEvent, FALSE)
    /\ \E overlay \in BOOLEAN, effect \in {"closes", "stuck", "either"},
          suggestions \in LocationSuggestionLists :
          page = [PageBlank EXCEPT !.overlay = overlay, !.saveEffect = effect,
                                   !.suggestions = suggestions]

NextLocationCall == NextLocation \/ NextOverlay

SpecLocation == InitLocation /\ [][NextLocationCall]_vars

\* One run of fill_partiful_form.  The event has or lacks each optional
\* field; the page starts with an overlay and a calendar that shows the month
\* before the start month.
EventStart == [year |-> 2025, month |-> 9, day |-> 1, hour |-> 18, minute |-> 0]

EventWith(location_text, description_md, cover_image_path) ==
    [title |-> <<"B","B","Q">>, start |-> EventStart, end |-> PlusHours(EventStart, 4),
     time_zone |-> "America/New_York",
     location_text |-> location_text, description_md |-> description_md,
     cover_image_path |-> cover_image_path]

FullEvent == EventWith(<<"M","I","T">>, <<"H","i">>, <<"a",".","p","n","g">>)

BareEvent == EventWith(Null, << >>, Null)

\* the runs explored, <<event, wait_for_publish, URLs served>>: an event with
\* every field on a site whose first URL fails, and an event with no optional
\* field on every site
Runs ==
    {<<FullEvent, FALSE, {partiful_create_urls[2], partiful_create_urls[3]}>>}
    \cup {<<BareEvent, w, S>> :
             w \in BOOLEAN,
             S \in SUBSET {partiful_create_urls[i] : i \in 1..Len(partiful_create_urls)}}

\* One call of fill_description, fill_location or fill_datetime against a page
\* on which it is known which selectors find a usable element and on which
\* ones the page raises.
EventSlots == << PageLabel(EventStart, TRUE), PageLabel(PlusHours(EventStart, 4), FALSE) >>

ChainPage(inputs, broken) == [PageBlank EXCEPT !.inputs = inputs, !.broken = broken]

InitChains ==
    /\ stack = << >>
    /\ rv = "None"
    /\ nav = NavStart(NoDate)
    /\ tm = Idle
    /\ ov = OverlayStart
    /\ ti = TitleStart(<< >>)
    /\ sv = SaveStart
    /\ img = CoverStart(Null)
    /\ run = RunStart(NoEvent, FALSE)
    /\ \/ /\ pc = "desc_start"
          /\ desc = DescriptionStart(<<"H","i">>)
          /\ loc = LocationStart(Null)
          /\ dt = DTStart(NoDate, NoDate)
          /\ \E inputs \in SUBSET Range(DESCRIPTION_INPUT_SELECTORS),
                broken \in SUBSET Range(DESCRIPTION_INPUT_SELECTORS) :
                page = ChainPage(inputs, broken)
       \/ /\ pc = "loc_start"
          /\ desc = DescriptionStart(Null)
          /\ loc = LocationStart(<<"M","I","T">>)
          /\ dt = DTStart(NoDate, NoDate)
          /\ \E inputs \in SUBSET {LOCATION_INPUT_SELECTORS[i] : i \in {3, 5, 7}},
                broken \in SUBSET {LOCATION_INPUT_SELECTORS[i] : i \in {3, 4}} :
                page = [ChainPage(inputs, broken) EXCEPT !.saveEffect = "closes"]
       \/ /\ pc = "dt_start"
          /\ desc = DescriptionStart(Null)
          /\ loc = LocationStart(Null)
          /\ dt = DTStart(EventStart, PlusHours(EventStart, 4))
          /\ \E inputs \in SUBSET Range(DateTriggers), broken \in SUBSET {DateTriggers[1]},
                overlay \in BOOLEAN :
                page = [ChainPage(inputs, broken) EXCEPT
                           !.overlay = overlay,
                           !.hdr = HeaderText(8, 2025),
                           !.cells = << [text |-> <<"1">>, disabled |-> FALSE] >>,
                           !.slots = SlotsOf(EventSlots),
                           !.endSlots = SlotsOf(EventSlots),
                           !.endButton = TRUE]

NextChains == NextDescription \/ NextLocation \/ NextDatetime

SpecChains == InitChains /\ [][NextChains]_vars

\* One construction of an EventSpec.  The starts include the last hours of a
\* day, of February in a leap and in a common year, of a year and of the last
\* year of all; the end is absent, equal to the start, after it or before it.
At(y, mo, d, h, mi) == [year |-> y, month |-> mo, day |-> d, hour |-> h, minute |-> mi]

EventSpecStarts ==
    {At(2025, 9, 1, 18, 0), At(2025, 9, 1, 19, 59), At(2025, 9, 1, 20, 0),
     At(2024, 2, 28, 23, 30), At(2025, 2, 28, 21, 15), At(2025, 4, 30, 22, 0),
     At(2025, 12, 31, 21, 0), At(MAXYEAR, 12, 31, 19, 59), At(MAXYEAR, 12, 31, 20, 0)}

EventSpecEnds(start) ==
    {NoDate, start, AddTimedelta(start, 3), At(2025, 9, 1, 17, 0), At(2024, 12, 31, 23, 59)}

EventSpecZones == available_timezones \cup {Omitted, "", "america/new_york", "Mars/Phobos"}

InitEventSpec ==
    /\ pc = "es_fields"
    /\ stack = << >>
    /\ rv = "None"
    /\ page = PageBlank
    /\ nav = NavStart(NoDate)
    /\ tm = Idle
    /\ ov = OverlayStart
    /\ dt = DTStart(NoDate, NoDate)
    /\ ti = TitleStart(<< >>)
    /\ loc = LocationStart(Null)
    /\ sv = SaveStart
    /\ desc = DescriptionStart(Null)
    /\ img = CoverStart(Null)
    /\ \E start \in EventSpecStarts :
       \E end \in EventSpecEnds(start), zone \in EventSpecZones :
          run = [RunStart(NoEvent, FALSE) EXCEPT
                    !.kwargs = [NoEvent EXCEPT !.title = <<"B","B","Q">>, !.start = start,
                                               !.end = end, !.time_zone = zone]]

SpecEventSpec == InitEventSpec /\ [][NextEventSpec]_vars

\* One call of fill_title.  The title element is empty or holds the
\* placeholder or an older title; the incoming title ends or does not end
\* with the placeholder suffix.
Chars(str) ==
    CASE str = "BBQ" -> <<"B","B","Q">>
      [] str = "Old" -> <<"O","l","d">>
      [] str = "Untitled Event" ->
            <<"U","n","t","i","t","l","e","d"," ","E","v","e","n","t">>
      [] str = "ntitled event" -> PlaceholderTail
      [] str = "Gala UNTITLED EVENT" ->
            <<"G","a","l","a"," ","U","N","T","I","T","L","E","D"," ","E","V","E","N","T">>
      [] str = "Main Event" -> <<"M","a","i","n"," ","E","v","e","n","t">>

TitleInputs ==
    {Chars(t) : t \in {"BBQ", "Untitled Event", "ntitled event", "Gala UNTITLED EVENT",
                       "Main Event"}}

TitleElementTexts == {<< >>, Chars("Untitled Event"), Chars("Old")}

InitTitle ==
    /\ pc = "ti_start"
    /\ stack = << >>
    /\ rv = "None"
    /\ nav = NavStart(NoDate)
    /\ tm = Idle
    /\ ov = OverlayStart
    /\ dt = DTStart(NoDate, NoDate)
    /\ loc = LocationStart(Null)
    /\ sv = SaveStart
    /\ desc = DescriptionStart(Null)
    /\ img = CoverStart(Null)
    /\ run = RunStart(NoEvent, FALSE)
    /\ \E title \in TitleInputs, shown \in TitleElementTexts :
          /\ ti = TitleStart(title)
          /\ page = [PageBlank EXCEPT !.title = shown]

SpecTitle == InitTitle /\ [][NextTitle]_vars

\* The rest of one run of fill_partiful_form from line 96 on: the page has
\* loaded from the first URL and the overlay guard, fill_title and
\* fill_datetime have returned.  The Save dialog of the location closes on
\* every attempt, on none, or on some.
TailEvents == {FullEvent, EventWith(<<"M","I","T">>, << >>, Null)}

InitTail ==
    /\ pc = "run_location"
    /\ stack = << >>
    /\ rv = "None"
    /\ IdleLocals
    /\ \E event \in TailEvents, wait \in BOOLEAN, overlay \in BOOLEAN,
          effect \in {"closes", "stuck", "either"} :
          /\ run = [RunStart(event, wait) EXCEPT
                       !.navigated = <<partiful_create_urls[1]>>,
                       !.loads = <<TRUE>>,
                       !.page_loaded = TRUE,
                       !.phase = "filling",
                       !.step = "fill_datetime",
                       !.calls = <<"close_modal_overlays", "fill_title", "fill_datetime">>,
                       !.returned = <<"close_modal_overlays", "fill_title", "fill_datetime">>]
          /\ page = [PageBlank EXCEPT !.serves = {partiful_create_urls[1]},
                                      !.overlay = overlay, !.saveEffect = effect]

NextTail ==
    \/ RunFillLocation \/ RunFillDescription \/ RunUploadCover \/ RunResume \/ RunWait
    \/ RunAwaitPublish \/ RunKeepOpen \/ RunFinally
    \/ NextLocation \/ NextOverlay \/ NextDescription \/ NextCover

SpecTail == InitTail /\ [][NextTail]_vars

\* Every awaited page operation answers or times out: the run always proceeds.
FairSpecTail == SpecTail /\ WF_vars(NextTail)

\* The run from fill_datetime onwards, in a working directory that may refuse
\* the debug files: the page has loaded, the overlays are closed and the
\* title is filled.
\* One call of extract.  The text is empty, short, or about as long as the
\* limit of the fallback title; default_tz is absent, empty, a registered
\* zone or an unknown one; the clock reads a morning or the last minute of a
\* year.
Repeat(c, n) == [i \in 1..n |-> c]

ExtractTexts == {Repeat("x", n) : n \in {0, 1, TITLE_LIMIT - 1, TITLE_LIMIT, TITLE_LIMIT + 1, TITLE_LIMIT + 7}}

ExtractZones == {NoneZone, "", "UTC", "America/New_York", "Mars/Phobos", "EST5"}

ExtractNows == {At(2025, 9, 1, 8, 30), At(2025, 12, 31, 23, 59)}

InitExtract ==
    /\ pc = "ex_start"
    /\ stack = << >>
    /\ rv = "None"
    /\ page = PageBlank
    /\ IdleLocals
    /\ \E text \in ExtractTexts, zone \in ExtractZones, now \in ExtractNows :
          run = [RunStart(NoEvent, FALSE) EXCEPT
                    !.req = [text |-> text, default_tz |-> zone], !.now = now]

SpecExtract == InitExtract /\ [][NextExtract]_vars

InitArtifacts ==
    /\ pc = "run_datetime"
    /\ stack = << >>
    /\ rv = "None"
    /\ IdleLocals
    /\ \E wait \in BOOLEAN, overlay \in BOOLEAN :
          /\ run = [RunStart(FullEvent, wait) EXCEPT
                       !.navigated = <<partiful_create_urls[1]>>,
                       !.loads = <<TRUE>>,
                       !.page_loaded = TRUE,
                       !.phase = "filling",
                       !.step = "fill_title",
                       !.calls = <<"close_modal_overlays", "fill_title">>,
                       !.returned = <<"close_modal_overlays", "fill_title">>]
          /\ page = [PageBlank EXCEPT
                        !.serves = {partiful_create_urls[1]},
                        !.disk = "failing",
                        !.overlay = overlay,
                        !.hdr = HeaderText(8, 2025),
                        !.saveEffect = "closes",
                        !.cells = << [text |-> Str(1), disabled |-> FALSE] >>,
                        !.slots = SlotsOf(<< PageLabel(EventStart, TRUE),
                                             PageLabel(PlusHours(EventStart, 4), FALSE) >>),
                        !.endSlots = SlotsOf(<< PageLabel(PlusHours(EventStart, 4), FALSE) >>),
                        !.endButton = TRUE]

NextArtifacts ==
    \/ RunFillDatetime \/ RunFillLocation \/ RunFillDescription \/ RunUploadCover
    \/ RunResume \/ RunWait \/ RunAwaitPublish \/ RunKeepOpen \/ RunFinally
    \/ NextDatetime \/ NextLocation \/ NextDescription \/ NextCover

SpecArtifacts == InitArtifacts /\ [][NextArtifacts]_vars

\* Every awaited page operation answers or times out: the run always proceeds.
FairSpecArtifacts == SpecArtifacts /\ WF_vars(NextArtifacts)

Init ==
    /\ pc = "run_url"
    /\ stack = << >>
    /\ rv = "None"
    /\ IdleLocals
    /\ \E r \in Runs :
          /\ run = RunStart(r[1], r[2])
          /\ page = [PageBlank EXCEPT
                        !.serves = r[3],
                        !.hdr = HeaderText(8, 2025), !.overlay = TRUE,
                        !.saveEffect = "closes",
                        !.cells = << [text |-> Str(1), disabled |-> FALSE] >>,
                        !.slots = SlotsOf(<< PageLabel(EventStart, TRUE),
                                             PageLabel(PlusHours(EventStart, 4), FALSE) >>),
                        !.endSlots = SlotsOf(<< PageLabel(PlusHours(EventStart, 4), FALSE) >>),
                        !.endButton = TRUE]

Spec == Init /\ [][Next]_vars

\* Every awaited page operation answers or times out: the run always proceeds.
FairSpec == Spec /\ WF_vars(Next)

(***************************************************************************)
(* Properties of the Calendar Navigator.                                   *)
(***************************************************************************)
ClicksOn(sel) == {i \in 1..Len(page.clicks) : page.clicks[i].sel = sel}

NavEnded == nav.result # "running"

\* C1: every call of select_date_in_datepicker ends, and it never clicks the
\* next-month control more than 12 times, whatever the header shows.
C1_NavigatorTerminatesWithin12Clicks ==
    /\ [](Cardinality(ClicksOn("next-month")) <= 12)
    /\ <>NavEnded

\* C1 witness: the header never matched and the call gave up after 12 clicks.
C1_Witness ==
    /\ nav.result = "Failed"
    /\ nav.why = "exhausted"
    /\ Cardinality(ClicksOn("next-month")) = 12

\* the header reading is a month and a year, later than the target's
DisplayedLater(current, t) ==
    /\ current # << >>
    /\ IsNumeric(current[2])
    /\ IsMonthName(current[1])
    /\ \/ IntOf(current[2]) > t.year
       \/ IntOf(current[2]) = t.year /\ MonthOf(current[1]) > t.month

\* C2: once the header read is later than the target, the very next step of
\* the navigator returns Failed and touches nothing on the page; and no
\* previous-month control is ever clicked.
C2_OutOfRangeFailsWithoutClick ==
    /\ [](ClicksOn("previous-month") = {})
    /\ [][(pc = "nav_compare" /\ DisplayedLater(nav.current, nav.target))
            => (nav'.result = "Failed" /\ rv' = "False" /\ page' = page)]_vars

\* C2 witness: the navigator failed on a header later than the target.
C2_Witness ==
    /\ nav.why = "out_of_range"
    /\ DisplayedLater(nav.current, nav.target)
    /\ rv = "False"

\* C3: every day cell the navigator clicks has trimmed text exactly equal to
\* the target day and is enabled, it is clicked while the header reading is
\* the target month, and at most one day cell gets clicked.
C3_OnlyExactEnabledDayClicked ==
    /\ \A i \in ClicksOn("day") :
          /\ page.clicks[i].text # Null
          /\ Strip(page.clicks[i].text) = Str(nav.target.day)
          /\ ~page.clicks[i].disabled
          /\ nav.current = <<MonthName[nav.target.month], Str(nav.target.year)>>
    /\ page.dayClicked <= 1

\* C3 witness: the grid shows "11", "21" and "1", the target day is 1, and
\* the cell "1" was the one clicked.
C3_Witness ==
    /\ nav.target.day = 1
    /\ {page.cells[i].text : i \in 1..Len(page.cells)} = { <<"1">>, <<"1", "1">>, <<"2", "1">> }
    /\ page.cells[3].text = <<"1">>
    /\ nav.result = "Done"
    /\ page.dayClicked = 1
    /\ \A i \in ClicksOn("day") : page.clicks[i].text = <<"1">>

\* the navigator is about to decide, or to act on its decision
Deciding == pc \in {"nav_compare", "nav_next", "nav_day"}

\* C31: whenever the navigator decides or acts on a decision (next-month
\* click, day click, out-of-range failure), it has read the header once in
\* every round of its loop, and the reading it holds is the one of the header
\* the page shows now, after the last next-month click, or no reading at all;
\* a day cell is clicked only while that reading is the target month and year.
C31_DecisionsUseFreshReading ==
    /\ [](Deciding => /\ nav.reads = nav.attempts
                      /\ nav.current \in {ParseHeader(page.hdr), << >>})
    /\ [](nav.why = "out_of_range" => nav.current = ParseHeader(page.hdr))
    /\ [](ClicksOn("day") # {} =>
             /\ ParseHeader(page.hdr) = <<MonthName[nav.target.month], Str(nav.target.year)>>
             /\ nav.current = ParseHeader(page.hdr)
             /\ nav.reads = nav.attempts)
    /\ [][Cardinality(ClicksOn("next-month"))' > Cardinality(ClicksOn("next-month"))
             => (pc = "nav_next" /\ nav.current = ParseHeader(page.hdr))]_vars

\* two months were passed with a new reading each, and the day was clicked
\* at the third
C31_Witness ==
    /\ nav.result = "Done"
    /\ nav.reads = 3
    /\ Cardinality(ClicksOn("next-month")) = 2
    /\ page.dayClicked = 1

\* the place of a month in the calendar: the months of a year follow those
\* of the year before
MonthOrdinal(year, month) == year * 12 + month

\* the place in the calendar of the month the page shows
ShownOrdinal ==
    LET parts == Split(page.hdr)
    IN  MonthOrdinal(IntOf(parts[2]), MonthOf(parts[1]))

\* how many months the target lay ahead of the month shown at the start, on
\* a calendar that went on by one month with every next-month click
MonthsAhead ==
    Cardinality(ClicksOn("next-month"))
       + MonthOrdinal(nav.target.year, nav.target.month) - ShownOrdinal

\* some day cell of the grid is enabled and reads the target day
HasEnabledMatch ==
    \E i \in 1..Len(page.cells) :
       /\ ~page.cells[i].disabled
       /\ page.cells[i].text # Null
       /\ Strip(page.cells[i].text) = Str(nav.target.day)

\* the navigator went through click_target_day
AtTargetEnded == nav.why \in {"no_day", "day_clicked"}

\* C29: when the navigator has looked for the day at the target month and no
\* cell of the grid is both enabled and reads the target day, it has returned
\* False (Failed) and no day cell got a click; a disabled cell is never
\* clicked, whatever its text.
C29_NoEnabledMatchFailsWithoutClick ==
    /\ (AtTargetEnded /\ ~HasEnabledMatch) =>
          /\ nav.result = "Failed"
          /\ pc = "returned" /\ rv = "False"
          /\ ClicksOn("day") = {}
          /\ page.dayClicked = 0
    /\ \A i \in 1..Len(page.clicks) :
          page.clicks[i].by = "click_target_day" => ~page.clicks[i].disabled

\* the only cell that reads the target day is disabled, and the navigator
\* failed at the target month
C29_Witness ==
    /\ AtTargetEnded
    /\ ~HasEnabledMatch
    /\ \E i \in 1..Len(page.cells) :
          /\ page.cells[i].disabled
          /\ page.cells[i].text # Null
          /\ Strip(page.cells[i].text) = Str(nav.target.day)
    /\ rv = "False"

\* C30: for every month and year the calendar can display and every target,
\* the step that compares them goes to the day cells exactly when the two are
\* the same month, to the next-month button exactly when the displayed month
\* comes earlier in the calendar (year first, then month), and returns False
\* as out of range exactly when it comes later.
C30_DecisionIsCalendarOrder ==
    [][\A m \in 1..12, y \in Years :
          (pc = "nav_compare" /\ nav.current = <<MonthName[m], Str(y)>>) =>
             LET shown == MonthOrdinal(y, m)
                 wanted == MonthOrdinal(nav.target.year, nav.target.month)
             IN  /\ (shown = wanted) <=> (pc' = "nav_day")
                 /\ (shown < wanted) <=> (pc' = "nav_next")
                 /\ (shown > wanted) <=>
                       (pc' = "returned" /\ rv' = "False" /\ nav'.why = "out_of_range")
                 /\ page' = page]_vars

\* the calendar went from December 2025 over the turn of the year to the
\* target, January 2026, and the navigator is at the day cells
C30_Witness ==
    /\ pc = "nav_day"
    /\ nav.target.year = 2026 /\ nav.target.month = 1
    /\ nav.current = <<MonthName[1], Str(2026)>>
    /\ nav.attempts = 2
    /\ Cardinality(ClicksOn("next-month")) = 1

\* C32: on a calendar whose next-month button is enabled and moves the
\* header on by one month per click, with an enabled cell for the target day
\* and no page operation failing, a navigator that has ended with the target
\* k months ahead of the first header, 0 <= k <= 12, has ended in Done after
\* exactly k next-month clicks.
C32_ReachesTargetWithinAYear ==
    (/\ NavEnded
     /\ page.hdr \in CalendarHeaders
     /\ page.nextButton = NoAttribute
     /\ HasEnabledMatch
     /\ nav.why \in {"day_clicked", "exhausted", "out_of_range"}
     /\ MonthsAhead \in 0..max_attempts)
       => /\ nav.result = "Done"
          /\ Cardinality(ClicksOn("next-month")) = MonthsAhead

(***************************************************************************)
(* Properties of the Time Slot Selector.                                   *)
(***************************************************************************)
\* the slots of elems whose trimmed text is exactly the text label
ExactSlots(elems, label) ==
    {i \in 1..Len(elems) : elems[i].text # Null /\ Strip(elems[i].text) = label}

Least(S) == CHOOSE i \in S : \A j \in S : i <= j

ClicksBy(by) == {i \in 1..Len(page.clicks) : page.clicks[i].by = by}

\* C9: the exact pass runs first; when some slot's trimmed text equals the
\* formatted start label the first such slot is the one clicked and the
\* normalized pass does not run; the normalized pass runs only after an exact
\* pass that matched no slot.
C9_ExactPassFirst ==
    LET exact == ExactSlots(tm.elems, FormatTime(tm.start))
    IN  /\ tm.passes # << >> => tm.passes[1] = "exact"
        /\ \A i \in 1..Len(tm.passes) :
              tm.passes[i] = "normalized" => i = 2 /\ exact = {}
        /\ ClicksBy("normalized") # {} => exact = {} /\ ClicksBy("exact") = {}
        /\ (tm.passes # << >> /\ exact # {}) =>
              /\ ClicksBy("normalized") = {}
              /\ tm.startIdx \in {0, Least(exact)}
              /\ ~tm.error => tm.startIdx = Least(exact) /\ ClicksBy("exact") # {}

\* C9 witness: two slots carry the exact label, the first was clicked by the
\* exact pass and the normalized pass did not run.
C9_Witness ==
    /\ Cardinality(ExactSlots(tm.elems, FormatTime(tm.start))) = 2
    /\ tm.startIdx = 1
    /\ tm.passes = <<"exact">>
    /\ tm.result = "True"

\* the slots of elems showing time t, in either spacing convention
SlotsShowing(elems, t) ==
    {i \in 1..Len(elems) : elems[i].text \in {PageLabel(t, FALSE), PageLabel(t, TRUE)}}

\* C10: when the slot list contains the start time's label, with or without
\* a space before the meridiem, and no page operation raises, the start
\* selection succeeds and the slot clicked shows the start time; the same for
\* the end time once the end pass has run over a list containing its label.
C10_FormatThenMatchSucceeds ==
    /\ (tm.result # "running" /\ ~tm.error /\ SlotsShowing(tm.elems, tm.start) # {}) =>
          /\ tm.success
          /\ tm.startIdx # 0
          /\ Replace(Strip(tm.elems[tm.startIdx].text), <<" ">>, << >>)
                 = PageLabel(tm.start, FALSE)
    /\ (tm.result # "running" /\ ~tm.error /\ "end" \in {tm.passes[i] : i \in 1..Len(tm.passes)}
           /\ SlotsShowing(tm.endElems, tm.end) # {}) =>
          /\ tm.endIdx # 0
          /\ Replace(Strip(tm.endElems[tm.endIdx].text), <<" ">>, << >>)
                 = PageLabel(tm.end, FALSE)

\* C10 witness: start and end were both found among slots written with a
\* space before the meridiem.
C10_Witness ==
    /\ tm.result = "True"
    /\ tm.startIdx # 0 /\ tm.elems[tm.startIdx].text = PageLabel(tm.start, TRUE)
    /\ tm.endIdx # 0 /\ tm.endElems[tm.endIdx].text = PageLabel(tm.end, TRUE)
    /\ tm.start.hour = 6

EndSlotClicks ==
    {i \in 1..Len(page.clicks) : page.clicks[i].by = "end" /\ page.clicks[i].sel = "slot"}

EndButtonClicks == {i \in 1..Len(page.clicks) : page.clicks[i].sel = "End"}

\* C11: a slot is clicked for the end time only after the End button was
\* clicked, and the slot comes from the list read after that click; on a page
\* without the End button neither the button nor an end slot is clicked and
\* the call returns True exactly when the start slot was selected.
C11_EndSlotOnlyAfterEndButton ==
    /\ \A i \in EndSlotClicks :
          /\ \E j \in EndButtonClicks : j < i
          /\ tm.endIdx # 0
          /\ tm.endElems = page.slots
          /\ page.clicks[i].text = tm.endElems[tm.endIdx].text
    /\ ~page.endButton => EndSlotClicks = {} /\ EndButtonClicks = {}
    /\ (~page.endButton /\ tm.result # "running" /\ ~tm.error) =>
          (tm.result = "True" <=> tm.startIdx # 0)

\* C11 witness: the end time is wanted and its label is on the page, the End
\* button is not; the start slot was clicked and the call returned True.
C11_Witness ==
    /\ ~page.endButton
    /\ tm.end # NoDate
    /\ SlotsShowing(page.slots, tm.end) # {}
    /\ tm.startIdx # 0
    /\ tm.result = "True"
    /\ ~tm.error

(***************************************************************************)
(* Properties of the date/time filler.                                     *)
(***************************************************************************)
KeysBy(by) == SelectSeq(page.keys, LAMBDA k : k.by = by)

\* C8: when the first header read shows a month after the target's, the
\* navigator returns Failed with no click of its own, and fill_datetime then
\* runs the typed-date strategy: unless one of its page operations raises,
\* it selects all, types "<date> at <time>" and ends with Enter.
C8_OutOfRangeFallsBackToTyping ==
    /\ (pc = "dt_selected" /\ nav.why = "out_of_range" /\ nav.attempts = 1) =>
          /\ rv = "False"
          /\ ClicksBy("click_next_month") = {} /\ ClicksBy("click_target_day") = {}
    /\ (dt.result = "returned" /\ dt.navWhy = "out_of_range") =>
          /\ dt.navResult = "False"
          /\ dt.fallback \in {"typed", "failed"}
          /\ dt.fallback = "typed" =>
                LET keys == KeysBy("fill_datetime")
                IN  /\ Len(keys) >= 3
                    /\ keys[1] = Key("Control+a", Null, "fill_datetime")
                    /\ keys[2] = Key("type", FallbackText(dt.start), "fill_datetime")
                    /\ keys[Len(keys)] = Key("Enter", Null, "fill_datetime")

\* C8 witness: the calendar shows October 2025 for the target 1 September
\* 2025 18:00; the navigator gave up without a click; "Monday, September 01,
\* 2025 at 6:00 PM" was typed and confirmed.
C8_Witness ==
    /\ dt.result = "returned"
    /\ dt.navWhy = "out_of_range"
    /\ page.hdr = HeaderText(10, 2025) /\ page.calendar
    /\ ClicksOn("next-month") = {} /\ ClicksOn("day") = {}
    /\ dt.fallback = "typed"
    /\ KeysBy("fill_datetime")[2].text = <<"M","o","n","d","a","y",","," ","S","e","p","t","e","m","b","e","r"," ","0","1",","," ","2","0","2","5"," ","a","t"," ","6",":","0","0"," ","P","M">>
    /\ KeysBy("fill_datetime")[Len(KeysBy("fill_datetime"))].key = "Enter"

\* the header reading is not a month name and a numeric year
Unparsable(current) ==
    \/ current = << >>
    \/ ~IsMonthName(current[1])
    \/ ~IsNumeric(current[2])

\* C27: once the navigator has compared a header reading that is not a month
\* name and a numeric year, it has returned False (Failed) to its caller: it
\* has not raised and it goes on to no click.
C27_UnparsableHeaderFails ==
    (nav.reads > 0 /\ pc # "nav_compare" /\ Unparsable(nav.current)) =>
        /\ pc = "returned"
        /\ rv = "False"
        /\ nav.result = "Failed"

\* the clicks on the next-month button
NextMonthClicks == ClicksOn("next-month")

\* C28: the next-month button is clicked only when it is there and enabled;
\* when the navigator has failed in the Advancing state because the button
\* is missing or disabled, it has clicked nothing and has read the header
\* once for every round of its loop, never again after the failure.
C28_NextMonthClickedOnlyWhenEnabled ==
    /\ NextMonthClicks # {} =>
          page.nextButton # NoButton /\ ~ButtonDisabled(page.nextButton)
    /\ (nav.why = "no_next" /\ (page.nextButton = NoButton \/ ButtonDisabled(page.nextButton))) =>
          /\ page.clicks = << >>
          /\ pc = "returned" /\ rv = "False"
          /\ nav.reads = nav.attempts

(***************************************************************************)
(* Properties of the saved location.                                       *)
(***************************************************************************)
\* C22: when fill_location has returned after a Save that succeeded, the
\* location the page saved is the location text of the event, whatever the
\* autocomplete list showed.
C22_SavedLocationIsEventText ==
    (pc = "returned" /\ loc.saved = "True") => page.savedLocation = loc.text

\* the step is a click or a key press of click_location_save
SaveActs ==
    \/ Len(page'.clicks) > Len(page.clicks)
    \/ Len(page'.keys) > Len(page.keys)

\* C33: click_location_save goes through its tiers in the order role-based
\* Save button, text-matched Save button, Enter key, click near the bottom of
\* the dialog; once a tier has acted and the dialog is gone no further tier
\* runs; True is returned only by a tier that acted and then saw the dialog
\* gone, and False only after all four tiers.
C33_SaveTiersInOrderUntilClosed ==
    /\ [](IsPrefix(sv.tiers, <<"role_button", "text_button", "enter", "bottom_click">>))
    /\ [][(pc = "sv_tier" /\ SaveActs /\ ~page'.dialog)
             => (sv'.result = "True" /\ pc' # "sv_tier" /\ rv' = "True")]_vars
    /\ [][(pc = "sv_tier" /\ sv'.result = "True") => (SaveActs /\ ~page'.dialog)]_vars
    /\ [][(pc = "sv_tier" /\ pc' = "sv_tier")
             => (sv'.tiers = Append(sv.tiers, SaveTiers[Len(sv.tiers) + 1])
                 /\ sv'.result = "idle"
                 /\ (SaveActs => page'.dialog))]_vars
    /\ [](sv.result = "False" => sv.tiers = SaveTiers)

\* the first three tiers left the dialog open and the click near its bottom
\* closed it
C33_Witness ==
    /\ sv.result = "True"
    /\ sv.tiers = SaveTiers
    /\ ~page.dialog
    /\ page.saveEffect = "either"
    /\ Cardinality({i \in 1..Len(page.clicks) : page.clicks[i].by = "click_location_save"}) = 3

GuardClicks == {i \in 1..Len(page.clicks) : page.clicks[i].by = "close_modal_overlays"}

GuardKeys == {i \in 1..Len(page.keys) : page.keys[i].by = "close_modal_overlays"}

\* C14 as stated: the guard has three tactics, Escape, the force-click on the
\* overlay and a click at an outside coordinate, applied in this order while
\* the overlay is still there; a guard that ends with the overlay still
\* present has applied all three.
C14_ThreeTacticsInOrder ==
    /\ IsPrefix(ov.tactics, <<"Escape", "force_click", "outside_click">>)
    /\ ov.result = "persists" =>
          ov.tactics = <<"Escape", "force_click", "outside_click">>

\* C14, amended: the guard has two tactics.  It presses Escape only when the
\* first query found the overlay, queries again, force-clicks the overlay
\* element only when that query still found it, and ends with a final query;
\* it clicks nothing but the overlay element, and a guard that reports the
\* overlay as persisting has applied exactly Escape and the force-click.
C14_TwoTacticsInOrder ==
    /\ IsPrefix(ov.tactics, <<"Escape", "force_click">>)
    /\ pc = "ov_escape" => (page.overlay /\ ov.tactics = << >>)
    /\ pc = "ov_click" => (page.overlay /\ ov.tactics = <<"Escape">>)
    /\ pc = "ov_final" => (ov.tactics # << >> /\ (ov.tactics = <<"Escape">> => ~page.overlay))
    /\ \A i \in GuardClicks : page.clicks[i].sel = "overlay"
    /\ \A i \in GuardKeys : page.keys[i].key = "Escape"
    /\ Cardinality(GuardClicks) <= 1 /\ Cardinality(GuardKeys) <= 1
    /\ ov.result = "persists" => (page.overlay /\ ov.tactics = <<"Escape", "force_click">>)
    /\ ov.result = "closed" => ~page.overlay

\* both tactics were applied and the overlay is still there
C14_Witness ==
    /\ ov.result = "persists"
    /\ page.overlay
    /\ ov.tactics = <<"Escape", "force_click">>
    /\ Cardinality(GuardClicks) = 1 /\ Cardinality(GuardKeys) = 1

\* C15 as stated: the guard returns true when no overlay blocks the page at
\* its end and false when one still does; it never raises and its caller
\* goes on with its field.
C15_ReturnsWhetherClear ==
    /\ pc # "raised"
    /\ pc = "dt_shot" =>
          /\ ov.result = "persists" => rv = "False"
          /\ ov.result \in {"none", "closed"} => rv = "True"

\* C15, amended: the guard returns None whether the overlay is gone, still
\* there or could not be inspected; whatever raises inside it is swallowed,
\* so fill_datetime's handler is never entered from the guard, and
\* fill_datetime goes on to its next statement in every case.
C15_ReturnsNoneNeverRaises ==
    /\ pc # "raised"
    /\ pc = "dt_shot" =>
          /\ rv = "None"
          /\ ov.result \in {"none", "closed", "persists", "error"}
          /\ ov.result = "persists" => page.overlay
          /\ ENABLED (DTScreenshotBefore /\ pc' = "dt_method1")
    /\ pc = "dt_except" => ov = OverlayStart

\* the guard has returned to fill_datetime with the overlay still in place
C15_Witness ==
    /\ pc = "dt_shot"
    /\ ov.result = "persists" /\ page.overlay
    /\ rv = "None"

(***************************************************************************)
(* Properties of the location filler.                                      *)
(***************************************************************************)
\* C12: when the Save dialog is still open after click_location_save has run,
\* the call went through all four tiers and returned False; fill_location
\* then ends by an ordinary return, after one retry unless the pause before
\* the retry raised, and no exception leaves it.
C12_StuckSaveIsRecoverable ==
    /\ pc # "raised"
    /\ (pc = "loc_saved" /\ page.dialog) =>
          (rv = "False" /\ sv.result = "False" /\ sv.tiers = SaveTiers)
    /\ (loc.saved = "False" /\ pc \notin {"loc_save", "sv_tier", "loc_saved"}) =>
          (pc \in {"loc_return", "returned"} /\ loc.saveCalls \in {1, 2} /\ ~loc.raised)
    /\ pc = "returned" => (loc.result = "returned" /\ rv = "None" /\ stack = << >>)

\* the dialog stayed open through both calls and fill_location has returned
C12_Witness ==
    /\ pc = "returned"
    /\ page.saveEffect = "stuck" /\ page.dialog
    /\ loc.saved = "False" /\ loc.saveCalls = 2

(***************************************************************************)
(* Properties of the chains of selectors.                                  *)
(***************************************************************************)
\* the place in the list of the first selector that finds a usable element on
\* this page without raising, 0 when there is none
FirstUsable(list) ==
    LET usable == {k \in 1..Len(list) : list[k] \in page.inputs \ page.broken}
    IN  IF usable = {} THEN 0 ELSE CHOOSE k \in usable : \A j \in usable : k <= j

FillsBy(actor) == SelectSeq(page.fills, LAMBDA e : e.by = actor)

ClickSeqBy(actor) == SelectSeq(page.clicks, LAMBDA e : e.by = actor)

\* what a chain has done on a page whose usable and raising selectors are
\* known: tried is the list of selectors evaluated, fills the fills made
ChainHolds(list, tried, fills, typing) ==
    LET first == FirstUsable(list)
    IN  /\ IsPrefix(tried, list)
        /\ Len(fills) <= 1
        /\ tried # << >> =>
              /\ fills # << >> =>
                    (first # 0 /\ fills[1].sel = list[first] /\ Len(tried) = first)
              /\ (first # 0 /\ Len(tried) >= first) => fills # << >>
              /\ (first = 0 /\ Len(tried) = Len(list)) => pc \in typing

\* C13: the description selectors and the location fallback selectors are
\* evaluated in list order, each at most once; the only fill is made on the
\* first selector that finds a usable element, after which no later selector
\* is evaluated; when no selector does, the function goes on to type the text
\* and no exception leaves it.  Of the two date triggers the second is
\* clicked only when the first was not, and when neither works the typed-date
\* strategy runs.
C13_ChainsInOrderFirstUsableWins ==
    /\ pc # "raised"
    /\ ChainHolds(DESCRIPTION_INPUT_SELECTORS, desc.tried, FillsBy(DESC),
                  {"desc_type", "desc_except", "desc_return", "returned"})
    /\ ChainHolds(LOCATION_INPUT_SELECTORS, loc.tried, FillsBy(LOC),
                  {"loc_type", "loc_except", "loc_return", "returned"})
    /\ pc = "dt_picker" =>
          LET first == FirstUsable(DateTriggers)
              clicked == [i \in 1..Len(ClickSeqBy(ME)) |-> ClickSeqBy(ME)[i].sel]
          IN  /\ first = 1 => clicked = <<"date">>
              /\ first = 2 => clicked = <<"Set a date">>
              /\ first = 0 => clicked = << >>
              /\ dt.date_clicked <=> first # 0

\* the third description selector was filled although the fourth would match
\* too, after the page raised on the first and lacked the second
C13_Witness ==
    /\ pc = "returned"
    /\ desc.filledBy = 3
    /\ DESCRIPTION_INPUT_SELECTORS[4] \in page.inputs \ page.broken
    /\ DESCRIPTION_INPUT_SELECTORS[1] \in page.broken
    /\ DESCRIPTION_INPUT_SELECTORS[2] \notin page.inputs
    /\ FillsBy(DESC) = <<Fill(DESCRIPTION_INPUT_SELECTORS[3], desc.text, DESC)>>

\* C35: fill_description clicks the trigger before anything else; the one
\* fill it makes is on the first selector of its list whose element is there
\* and takes the text; it types the description exactly when the whole list
\* was tried and no selector of it could be filled; and the text is entered
\* at most once in a call, by a fill or by typing.
C35_DescriptionFilledOrTypedOnce ==
    LET list == DESCRIPTION_INPUT_SELECTORS
        first == FirstUsable(list)
        fills == FillsBy(DESC)
        typing == KeysBy(DESC)
    IN  /\ Len(fills) + Len(typing) <= 1
        /\ (desc.tried # << >> \/ fills # << >> \/ typing # << >>) =>
              ClickSeqBy(DESC) = <<Click("Add a description", Null, FALSE, DESC)>>
        /\ IsPrefix(desc.tried, list)
        /\ fills # << >> =>
              (first # 0 /\ fills = <<Fill(list[first], desc.text, DESC)>> /\ desc.filledBy = first)
        /\ desc.typed <=> typing # << >>
        /\ desc.typed =>
              (first = 0 /\ desc.tried = list /\ typing = <<Key("type", desc.text, DESC)>>)
        /\ (pc = "returned" /\ desc.tried # << >>) =>
              /\ first # 0 => (fills # << >> /\ Len(desc.tried) = first)
              /\ (first = 0 /\ ~desc.raised) => desc.typed
              /\ (first = 0 /\ desc.raised) => (desc.tried = list /\ fills = << >>)

\* two selectors raise, two find nothing, and the description is typed
C35_Witness ==
    /\ pc = "returned"
    /\ desc.typed
    /\ desc.tried = DESCRIPTION_INPUT_SELECTORS
    /\ Cardinality(page.broken) = 2
    /\ page.inputs \subseteq page.broken
    /\ FillsBy(DESC) = << >>
    /\ KeysBy(DESC) = <<Key("type", <<"H", "i">>, DESC)>>

\* C36: with wait_for_publish true the wait has two outcomes: when the page
\* has left the form for the published event the run reports the publish as
\* detected, and when it has not the run reports that the publish was not
\* confirmed.
C36_PublishWaitDetectsNavigation ==
    run.publish # "none" =>
        /\ run.wait_for_publish
        /\ run.publish = "detected" <=> run.href = PublishedUrl

FallbackTyped == \E i \in 1..Len(KeysBy(ME)) : KeysBy(ME)[i].key = "type"

C38_ScreenshotFailureKeepsRoute ==
    (dt.result = "returned" /\ dt.artifact # "none") =>
        /\ dt.date_clicked => dt.navResult # "none"
        /\ (~dt.date_clicked \/ dt.navResult = "False" \/ dt.look = "no_date") =>
              dt.fallback # "no"

\* C39: however fill_partiful_form ends once the browser is launched, by
\* returning or by an exception (a page that never loaded included), it has
\* called browser.close() and the call has gone through, unless that call is
\* itself what raised; and once the browser is closed the run is over, so
\* that no filler acts on the page afterwards.
C39_BrowserClosedOnEveryEnd ==
    /\ (pc \in {"returned", "raised"} /\ run.error # "browser_close") => run.browser = "closed"
    /\ run.browser = "closed" => (pc \in {"returned", "raised"} /\ run.phase = "ended")

StartSlotClicks == ClicksBy("exact") \cup ClicksBy("normalized")

EndStepClicks == ClicksBy("end")

\* C40: in one call of set_time_in_datepicker at most one start slot and at
\* most one end slot are clicked, the End button and the end slots are
\* clicked only after a start slot was, and the value returned is True
\* exactly when a start slot was clicked.
C40_TimeResultIsStartClicked ==
    /\ Cardinality(StartSlotClicks) <= 1
    /\ Cardinality({i \in EndStepClicks : page.clicks[i].sel = "slot"}) <= 1
    /\ EndStepClicks # {} =>
          (StartSlotClicks # {} /\ \A i \in EndStepClicks : \A j \in StartSlotClicks : j < i)
    /\ tm.result # "running" => (tm.result = "True" <=> StartSlotClicks # {})

(***************************************************************************)
(* Properties of the title filler.                                         *)
(***************************************************************************)
\* C19: a title that ends with the placeholder suffix (the text the code
\* tests for, whatever its case) is typed with exactly that suffix taken off
\* its end; any other title is typed as it came.
C19_WholeSuffixRemoved ==
    ti.typed # Null =>
        IF EndsWith(Lower(ti.title), PlaceholderTail)
        THEN /\ Len(ti.typed) = Len(ti.title) - Len(PlaceholderTail)
             /\ ti.typed = SubSeq(ti.title, 1, Len(ti.typed))
        ELSE ti.typed = ti.title

\* C20: when fill_title has typed the title without an exception, the title
\* element holds the typed title and nothing else, whatever it held before.
C20_ReplacesExistingText ==
    (pc = "returned" /\ ~ti.raised) => page.title = ti.typed

(***************************************************************************)
(* Properties of the run after the date and time.                          *)
(***************************************************************************)
DescriptionLabels == {"desc_start", "desc_selectors", "desc_type", "desc_except", "desc_return"}

\* C21 as stated: fill_description never runs while the location dialog is
\* open.
C21_DialogClosedBeforeDescription ==
    pc \in DescriptionLabels => ~page.dialog

\* C21, amended: fill_description starts only after fill_location has
\* returned, and a call of click_location_save that returned True has left
\* the dialog closed, which it then stays until fill_location returns; when
\* the Save failed or was never reached the dialog may still be open while
\* the description is filled.
C21_DescriptionAfterLocationReturned ==
    /\ pc \in DescriptionLabels =>
          /\ loc = LocationStart(Null) /\ sv = SaveStart
          /\ run.returned = <<"close_modal_overlays", "fill_title", "fill_datetime",
                              "fill_location">>
          /\ run.calls = Append(run.returned, "fill_description")
    /\ (pc = "loc_saved" /\ rv = "True") => ~page.dialog
    /\ loc.saved = "True" => ~page.dialog

\* the description is being filled although the Save dialog never closed
C21_Witness ==
    /\ pc = "desc_selectors"
    /\ page.dialog /\ page.saveEffect = "stuck"
    /\ run.returned[Len(run.returned)] = "fill_location"

\* the run is over: fill_partiful_form returned or raised
RunOver == pc \in {"returned", "raised"}

C25_ExtractAlwaysResponds ==
    /\ pc # "raised"
    /\ pc = "returned" =>
          /\ run.response.confidence \in 0..10
          /\ run.error = "ValueError" =>
                /\ run.response.event.title = FallbackTitle(run.req.text)
                /\ Len(run.response.event.title) <= TITLE_LIMIT + Len(Ellipsis)
                /\ run.response.tzinfo = OrUTC(run.req.default_tz)

(***************************************************************************)
(* Properties of EventSpec.                                                *)
(***************************************************************************)
DaysBeforeYear(y) == 365 * (y - 1) + ((y - 1) \div 4) - ((y - 1) \div 100) + ((y - 1) \div 400)

DaysBeforeMonth(y, m) ==
    <<0, 31, 59, 90, 120, 151, 181, 212, 243, 273, 304, 334>>[m]
        + (IF m > 2 /\ IsLeap(y) THEN 1 ELSE 0)

\* the hours between the start of year 1 and the hour of t
HoursSince(t) == (DaysBeforeYear(t.year) + DaysBeforeMonth(t.year, t.month) + t.day - 1) * 24 + t.hour

Earlier(a, b) ==
    \/ HoursSince(a) < HoursSince(b)
    \/ HoursSince(a) = HoursSince(b) /\ a.minute < b.minute

\* C16: an EventSpec constructed without an end has its end exactly four
\* hours after its start, across the end of a day, a month or a year; an end
\* that was given is the end of the EventSpec, and the start is as given.
C16_DefaultEndIsStartPlusFourHours ==
    pc = "constructed" =>
        /\ run.event.start = run.kwargs.start
        /\ run.kwargs.end = NoDate =>
              /\ HoursSince(run.event.end) - HoursSince(run.event.start) = 4
              /\ run.event.end.minute = run.event.start.minute
        /\ run.kwargs.end # NoDate => run.event.end = run.kwargs.end

\* the default end falls in the next year
C16_Witness ==
    /\ pc = "constructed"
    /\ run.kwargs.end = NoDate
    /\ run.kwargs.start = At(2025, 12, 31, 21, 0)
    /\ run.event.end = At(2026, 1, 1, 1, 0)

\* C17: no constructed EventSpec has its end before its start.
C17_EndNotBeforeStart ==
    pc = "constructed" => ~Earlier(run.event.end, run.event.start)

\* C18: a time_zone that is not in the registry ends the construction with a
\* ValidationError and no EventSpec; a time_zone in the registry is the
\* time_zone of the EventSpec and never the reason of a failure.
C18_UnknownTimezoneFails ==
    /\ pc \in {"es_after", "constructed"} =>
          /\ run.event.time_zone \in available_timezones
          /\ run.kwargs.time_zone # Omitted => run.event.time_zone = run.kwargs.time_zone
    /\ (pc # "es_fields" /\ run.kwargs.time_zone \notin available_timezones \cup {Omitted}) =>
          (pc = "raised" /\ run.error = "ValidationError" /\ run.event = NoEvent)
    /\ (pc = "raised" /\ run.kwargs.time_zone \in available_timezones) =>
          run.error = "OverflowError"

\* a name that differs from a registered one only in its case was refused
C18_Witness ==
    /\ pc = "raised"
    /\ run.kwargs.time_zone = "america/new_york"
    /\ run.error = "ValidationError"
    /\ run.event = NoEvent

(***************************************************************************)
(* Properties of the orchestrator.                                         *)
(***************************************************************************)
HasValue(v) == v # Null /\ Len(v) > 0

\* the calls a run owes to its event, in the order of the form
ExpectedCalls(event) ==
    <<"close_modal_overlays", "fill_title", "fill_datetime">>
    \o (IF HasValue(event.location_text) THEN <<"fill_location">> ELSE << >>)
    \o (IF HasValue(event.description_md) THEN <<"fill_description">> ELSE << >>)
    \o (IF HasValue(event.cover_image_path) THEN <<"upload_cover_image">> ELSE << >>)

\* C4: whatever raises inside the fillers, the exception handler of the
\* orchestrator is never entered, nothing but a page-load or browser-close
\* failure leaves fill_partiful_form, every filler the event calls for has been
\* invoked when the wait phase begins, and the wait phase is always reached
\* once the page has loaded.
C4_FillerFailuresNeverAbort ==
    /\ [](pc # "run_except")
    /\ [](pc = "raised" => run.error \in {"page_load", "browser_close"})
    /\ [](run.phase = "waiting" => /\ run.calls = ExpectedCalls(run.event)
                                   /\ run.returned = run.calls)
    /\ (run.phase = "filling" ~> run.phase = "waiting")

\* all five fillers met an exception and the run waits for the user
C4_Witness ==
    /\ run.phase = "waiting"
    /\ run.failures = 5
    /\ Len(run.returned) = 6

\* the last key the filler sent confirms what was typed
EndsWithEnter(by) ==
    LET keys == KeysBy(by)
    IN  keys # << >> /\ keys[Len(keys)].key = "Enter"

\* C26: whenever a filler has taken its last resort of typing the raw text
\* into the focused element (date and time, location, description), the last
\* key it sent when it returns is the confirming Enter.
C26_TypedTextIsConfirmed ==
    /\ (pc = "dt_return" /\ dt.fallback = "typed") => EndsWithEnter(ME)
    /\ (pc = "loc_return" /\ loc.typed \in {"typed", "recovery"}) => EndsWithEnter(LOC)
    /\ (pc = "desc_return" /\ desc.typed) => EndsWithEnter(DESC)

\* C24: when fill_datetime cannot write one of its debug files (a screenshot
\* or the markup of the dialog), the exception stays inside fill_datetime: the
\* run neither raises nor enters the handler of the orchestrator because of
\* it, the wait phase is reached, and by then every filler the event calls
\* for has been called and has returned.
C24_ArtifactFailureNeverFailsRun ==
    /\ [](dt.artifact # "none" => pc \notin {"raised", "run_except"})
    /\ [](run.artifact # "none" =>
            /\ run.artifact \in DebugArtifacts
            /\ pc # "run_except"
            /\ (pc = "raised" => run.error = "browser_close" /\ run.phase = "ended")
            /\ (run.phase \in {"waiting", "ended"} =>
                   /\ run.calls = ExpectedCalls(run.event)
                   /\ run.returned = run.calls))
    /\ (dt.artifact # "none" ~> (run.artifact # "none" /\ run.phase = "waiting"))

\* the first screenshot failed, the other fillers ran, and the run waits
C24_Witness ==
    /\ run.phase = "waiting"
    /\ run.artifact = "before_date_click.png"
    /\ run.event = FullEvent
    /\ run.returned = ExpectedCalls(FullEvent)

AllUrlsFailed ==
    /\ Len(run.loads) = Len(partiful_create_urls)
    /\ \A i \in 1..Len(run.loads) : ~run.loads[i]

\* C5: when every candidate URL has failed to load, the run has ended with the
\* page-load failure, and neither the overlay guard nor any filler has been
\* called or has touched the page.
C5_NoPageAbortsBeforeFilling ==
    AllUrlsFailed =>
        /\ pc = "raised"
        /\ run.error = "page_load"
        /\ run.phase = "aborted"
        /\ run.calls = << >>
        /\ page.clicks = << >> /\ page.keys = << >> /\ page.fills = << >>
        /\ IdleLocals

C5_Witness ==
    /\ AllUrlsFailed
    /\ pc = "raised"
    /\ run.navigated = partiful_create_urls

\* C6: the URLs navigated to are the first ones of the configured list, in its
\* order, and only the last of them can have loaded.
C6_UrlsInOrderUntilFirstLoad ==
    /\ IsPrefix(run.navigated, partiful_create_urls)
    /\ Len(run.loads) = Len(run.navigated)
    /\ \A i \in 1..Len(run.loads) : run.loads[i] => i = Len(run.loads)
    /\ run.page_loaded <=> (\E i \in 1..Len(run.loads) : run.loads[i])
    /\ run.calls # << >> => run.page_loaded

\* the third URL loaded after the first two failed, and the form is being filled
C6_Witness ==
    /\ run.loads = <<FALSE, FALSE, TRUE>>
    /\ run.navigated = partiful_create_urls
    /\ run.phase = "filling"

\* the functions that act on the page on behalf of an orchestrator step
Actors(step) ==
    CASE step = "close_modal_overlays" -> {"close_modal_overlays"}
      [] step = "fill_title" -> {"fill_title"}
      [] step = "fill_datetime" ->
            {"fill_datetime", "close_modal_overlays", "click_next_month",
             "click_target_day", "exact", "normalized", "end"}
      [] step = "fill_location" ->
            {"fill_location", "close_modal_overlays", "click_location_save"}
      [] step = "fill_description" -> {"fill_description"}
      [] step = "upload_cover_image" -> {"upload_cover_image"}
      [] OTHER -> {}

Interactions ==
    {page.clicks[i].by : i \in 1..Len(page.clicks)}
    \cup {page.keys[i].by : i \in 1..Len(page.keys)}
    \cup {page.fills[i].by : i \in 1..Len(page.fills)}

\* C7: the calls made so far are the first calls the event is owed, overlay
\* guard first and then title, date/time, location, description, cover; all
\* but the last have returned; the page is touched only on behalf of the call
\* in progress, so never for a field the event has no value for.
C7_FixedOrderOneAtATime ==
    /\ IsPrefix(run.calls, ExpectedCalls(run.event))
    /\ IsPrefix(run.returned, run.calls)
    /\ Len(run.calls) - Len(run.returned) \in {0, 1}
    /\ Len(run.calls) = Len(run.returned) => Interactions = {}
    /\ Len(run.calls) > Len(run.returned) =>
          Interactions \subseteq Actors(run.calls[Len(run.calls)])
    /\ pc \in {"run_title", "run_datetime", "run_location", "run_description",
               "run_cover", "run_wait"} => Len(run.calls) = Len(run.returned)

\* the cover-image filler is at work after the five earlier calls returned
C7_Witness ==
    /\ run.calls = ExpectedCalls(FullEvent)
    /\ Len(run.returned) = 5
    /\ "upload_cover_image" \in Interactions

====
